---- MODULE Spec2Model ----
(***************************************************************************)
(* Governance configuration store of the bifrost gateway: the gorm-backed  *)
(* DbConfigStore (bulk replace of providers / MCP clients / env keys, key  *)
(* upsert, virtual-key associations), the redaction / merge layer of the   *)
(* config handler, and the backend migration handler (UpdateDbState).      *)
(***************************************************************************)
EXTENDS Integers, Sequences, FiniteSets, TLC

(***************************************************************************)
(* Bounds of the model.                                                    *)
(***************************************************************************)
MaxKeyRowId == 2
MaxProviderRowId == 2

(***************************************************************************)
(* Input domains.                                                          *)
(***************************************************************************)
ProviderNames == {"openai", "anthropic"}
KeyIDs == {"k1", "k2"}
KeyValues == {"sk-abc"}
Weights == {1, 2}
VirtualKeyIDs == {"vk1"}
Budgets == {"b1", "b2"}
MCPNames == {"mcp1", "mcp2"}
EnvVars == {"OPENAI_API_KEY", "ANTHROPIC_API_KEY"}

\* *schemas.MCPConfig: nil, or a list of client configs (by name).
MCPConfigs == [isNil : {TRUE}, ClientConfigs : {{}}]
                \cup [isNil : {FALSE}, ClientConfigs : SUBSET MCPNames]

\* map[string][]EnvKeyInfo, flattened to its (env var, key id) bindings.
EnvKeyMaps == SUBSET [EnvVar : EnvVars, KeyID : {"k1"}]

(***************************************************************************)
(* configstore.Config as its UnmarshalJSON produces it: the typed config   *)
(* of the Type, or a nil Config when not enabled.                          *)
(***************************************************************************)
SqlitePaths == {"config.db", "other.db"}
PostgresHosts == {"pg1", "pg2"}
PostgresPasswords == {"pw"}

NilConfig == [kind |-> "nil"]

SQLiteConfigs == [kind : {"SQLiteConfig"}, Path : SqlitePaths]

PostgresConfigs ==
  [kind : {"PostgresConfig"}, Host : PostgresHosts, Password : PostgresPasswords]

ConfigStoreTypeSQLite == "sqlite"
ConfigStoreTypePostgres == "postgres"

DbConfigs ==
  [Enabled : {TRUE}, Type : {ConfigStoreTypeSQLite}, Config : SQLiteConfigs]
  \cup [Enabled : {TRUE}, Type : {ConfigStoreTypePostgres}, Config : PostgresConfigs]
  \cup [Enabled : {FALSE}, Type : {ConfigStoreTypeSQLite},
        Config : {NilConfig}]

\* The config stores a process is started with in this model.
DefaultSqlite ==
  [Enabled |-> TRUE, Type |-> ConfigStoreTypeSQLite,
   Config |-> [kind |-> "SQLiteConfig", Path |-> "config.db"]]

StartPostgres ==
  [Enabled |-> TRUE, Type |-> ConfigStoreTypePostgres,
   Config |-> [kind |-> "PostgresConfig", Host |-> "pg1", Password |-> "pw"]]

ErrNil == "nil"
ErrStorage == "storage failure"
ErrNotFound == "ErrNotFound"

\* One submitted schemas.Key.
KeyInputs == [ID : KeyIDs, Value : KeyValues, Weight : Weights]

\* The Keys of one submitted provider: none, or one key.
KeySeqs == {<<>>} \cup {<<k>> : k \in KeyInputs}

\* map[schemas.ModelProvider]ProviderConfig in one iteration order of the
\* Go map: a sequence of entries with pairwise different names.
ProviderMaps ==
  {p \in UNION {[1..n -> [Name : ProviderNames, Keys : KeySeqs]] :
                    n \in 0..Cardinality(ProviderNames)} :
     \A i, j \in DOMAIN p : i # j => p[i].Name # p[j].Name}

VARIABLES
  backend,      \* the connection DbConfigStore.db was opened with
  db,           \* the tables reachable through DbConfigStore.db
  ret,          \* outcome of the last repository call
  configJson,   \* the config-store section of config.json (none or one)
  clientConfig, \* h.store.ClientConfig, the in-memory client config
  mig,          \* position of the UpdateDbState request in flight
  req,          \* body of the last vector-store / log-store request
  resp,         \* the last admin response
  rd,           \* position of the GetProvidersConfig call in flight
  proc,         \* position of each of the two concurrent goroutines
  configRest    \* the sections of config.json other than the config store

vars == <<backend, db, ret, configJson, clientConfig, mig, req, resp, rd, proc,
          configRest>>

handlerVars == <<configJson, clientConfig, mig, req, resp, rd, proc, configRest>>

(***************************************************************************)
(* Foreign-key enforcement of the connection.  The SQLite DSN sets the     *)
(* journal, synchronous, cache, busy-timeout and checkpoint pragmas only,  *)
(* so ON DELETE CASCADE is not enforced there; Postgres always enforces.   *)
(***************************************************************************)
ForeignKeysEnforced(b) == b.Type = ConfigStoreTypePostgres

Min(S) == CHOOSE x \in S : \A y \in S : x <= y

RECURSIVE SumLens(_, _)
SumLens(p, i) == IF i = 0 THEN 0 ELSE Len(p[i].Keys) + SumLens(p, i - 1)

NumKeys(p) == SumLens(p, Len(p))

(***************************************************************************)
(* gorm's db.Transaction: commit when the callback returns nil, roll back  *)
(* to the state before the transaction when it returns an error.           *)
(***************************************************************************)
TransactionNoRollback(pre, post, err) == post

Transaction(pre, post, err) == IF err = ErrNil THEN post ELSE pre

(***************************************************************************)
(* Statements of UpdateProvidersConfig.                                    *)
(***************************************************************************)
\* tx.Delete(&TableProvider{}) with AllowGlobalUpdate: every provider row
\* goes; with enforced foreign keys the delete cascades to the keys of the
\* deleted providers and from those to their virtual-key association rows.
DeleteAllProviders(d, fk) ==
  LET gone == {r.ID : r \in d.TableProvider}
      deadKeys == IF fk THEN {k \in d.TableKey : k.ProviderID \in gone} ELSE {}
      deadIds == {k.ID : k \in deadKeys}
  IN [d EXCEPT !.TableProvider = {},
               !.TableKey = d.TableKey \ deadKeys,
               !.VirtualKeyKeys = {a \in d.VirtualKeyKeys : a.KeyID \notin deadIds}]

\* tx.Create(&dbProvider)
CreateProvider(d, name) ==
  [d EXCEPT !.TableProvider = d.TableProvider \cup
                                {[ID |-> d.nextProviderId, Name |-> name]},
            !.nextProviderId = d.nextProviderId + 1]

\* The row built for one submitted key (dbKey), before its ID is known.
DbKey(d, name, key, id) ==
  [ID |-> id, KeyID |-> key.ID, Provider |-> name,
   ProviderID |-> (CHOOSE r \in d.TableProvider : r.Name = name).ID,
   Value |-> key.Value, Weight |-> key.Weight]

\* An insert of every submitted key, with no lookup of an existing row.
CreateKeyAlways(d, name, key) ==
  [d EXCEPT !.TableKey = d.TableKey \cup {DbKey(d, name, key, d.nextKeyId)},
            !.nextKeyId = d.nextKeyId + 1]

\* Upsert of one key: First() by key_id (lowest row id); found: keep the
\* row id and Save all fields; not found: Create a new row.
UpsertKey(d, name, key) ==
  LET found == {k \in d.TableKey : k.KeyID = key.ID}
  IN IF found # {}
       THEN LET existingKey == CHOOSE k \in found : k.ID = Min({f.ID : f \in found})
            IN [d EXCEPT !.TableKey = (d.TableKey \ {existingKey}) \cup
                                        {DbKey(d, name, key, existingKey.ID)}]
       ELSE [d EXCEPT !.TableKey = d.TableKey \cup {DbKey(d, name, key, d.nextKeyId)},
                      !.nextKeyId = d.nextKeyId + 1]

RECURSIVE ProviderOps(_, _)
\* The statements the loop over the providers map issues, in order.
ProviderOps(p, i) ==
  IF i > Len(p) THEN <<>>
  ELSE <<[op |-> "CreateProvider", Name |-> p[i].Name]>>
       \o [j \in 1..Len(p[i].Keys) |->
             [op |-> "UpsertKey", Name |-> p[i].Name, Key |-> p[i].Keys[j]]]
       \o ProviderOps(p, i + 1)

(***************************************************************************)
(* Statements of the virtual-key methods.                                  *)
(***************************************************************************)
\* txDB.Create(virtualKey)
CreateVirtualKeyRow(d, vk) ==
  [d EXCEPT !.TableVirtualKey = d.TableVirtualKey \cup {vk}]

\* txDB.Save(virtualKey): update the row with this primary key, insert it
\* when there is none.
SaveVirtualKeyRow(d, vk) ==
  [d EXCEPT !.TableVirtualKey = {r \in d.TableVirtualKey : r.ID # vk.ID} \cup {vk}]

\* Association("Keys").Clear()
ClearKeys(d, id) ==
  [d EXCEPT !.VirtualKeyKeys = {a \in d.VirtualKeyKeys : a.VirtualKeyID # id}]

\* Association("Keys").Append(keys)
AppendKeys(d, id, keyRowIds) ==
  [d EXCEPT !.VirtualKeyKeys = d.VirtualKeyKeys \cup
              {[VirtualKeyID |-> id, KeyID |-> k] : k \in keyRowIds}]

ApplyOp(d, o, fk) ==
  CASE o.op = "DeleteProviders" -> DeleteAllProviders(d, fk)
    [] o.op = "CreateProvider" -> CreateProvider(d, o.Name)
    [] o.op = "UpsertKey" -> UpsertKey(d, o.Name, o.Key)
    [] o.op = "DeleteMCPClients" -> [d EXCEPT !.TableMCPClient = {}]
    [] o.op = "CreateMCPClients" ->
         [d EXCEPT !.TableMCPClient = d.TableMCPClient \cup o.Rows]
    [] o.op = "DeleteEnvKeys" -> [d EXCEPT !.TableEnvKey = {}]
    [] o.op = "CreateEnvKeys" -> [d EXCEPT !.TableEnvKey = d.TableEnvKey \cup o.Rows]
    [] o.op = "DeleteVectorStoreConfig" -> [d EXCEPT !.TableVectorStoreConfig = {}]
    [] o.op = "CreateVectorStoreConfig" ->
         [d EXCEPT !.TableVectorStoreConfig = d.TableVectorStoreConfig \cup {o.Row}]
    [] o.op = "DeleteLogStoreConfig" -> [d EXCEPT !.TableLogStoreConfig = {}]
    [] o.op = "CreateLogStoreConfig" ->
         [d EXCEPT !.TableLogStoreConfig = d.TableLogStoreConfig \cup {o.Row}]
    [] o.op = "CreateVirtualKey" -> CreateVirtualKeyRow(d, o.Row)
    [] o.op = "SaveVirtualKey" -> SaveVirtualKeyRow(d, o.Row)
    [] o.op = "ClearKeys" -> ClearKeys(d, o.ID)
    [] o.op = "AppendKeys" -> AppendKeys(d, o.ID, o.Keys)
    [] o.op = "DeleteClientConfig" -> [d EXCEPT !.TableClientConfig = {}]
    [] o.op = "CreateClientConfig" ->
         [d EXCEPT !.TableClientConfig = d.TableClientConfig \cup {o.Row}]

RECURSIVE RunOps(_, _, _, _)
\* The state inside the transaction after the first n statements.
RunOps(d, ops, n, fk) ==
  IF n = 0 THEN d ELSE ApplyOp(RunOps(d, ops, n - 1, fk), ops[n], fk)

ProvidersTxOps(p) == <<[op |-> "DeleteProviders"]>> \o ProviderOps(p, 1)

\* failAt = 0: no statement fails; failAt = n: statement n returns an error
\* and the callback returns it.
Executed(ops, failAt) == IF failAt = 0 THEN Len(ops) ELSE failAt - 1

ErrOf(failAt) == IF failAt = 0 THEN ErrNil ELSE ErrStorage

EmptyDb ==
  [TableProvider |-> {}, TableKey |-> {}, TableVirtualKey |-> {},
   VirtualKeyKeys |-> {}, TableMCPClient |-> {}, TableEnvKey |-> {},
   TableClientConfig |-> {}, TableVectorStoreConfig |-> {},
   TableLogStoreConfig |-> {},
   TableTeam |-> {}, TableCustomer |-> {}, TableRateLimit |-> {},
   TableBudget |-> {}, TablePlugin |-> {}, TableConfig |-> {},
   nextProviderId |-> 1, nextKeyId |-> 1]

\* Statements a method issues on the bare connection commit one by one;
\* statements issued inside a transaction commit or roll back together.
RunStatements(d, ops, failAt, inTx, fk) ==
  LET post == RunOps(d, ops, Executed(ops, failAt), fk)
  IN IF inTx THEN Transaction(d, post, ErrOf(failAt)) ELSE post

Ret(op, err) == [op |-> op, err |-> err]

\* Result of a repository read: the error and the value returned.
RetVal(op, err, val) == [op |-> op, err |-> err, val |-> val]

NoBody == [kind |-> "none"]

Resp(op, status, body) == [op |-> op, status |-> status, body |-> body]

DefaultClientConfig ==
  [DropExcessRequests |-> FALSE, InitialPoolSize |-> 1, MaxRequestBodySizeMB |-> 1]

\* A process starts without config.json (default SQLite store) or with a
\* config.json that names the store it opened.
\* No GetProvidersConfig call is between its two queries.
IdleRead == [pc |-> "idle"]

\* Two goroutines, as two concurrent callers of the store or of a handler;
\* neither has a call in flight.
Goroutines == {1, 2}

IdleProc == [pc |-> "idle"]

IdleProcs == [g \in Goroutines |-> IdleProc]

\* The sections a config.json holds next to the config-store section.
OtherSections == {"client", "providers"}

\* No UpdateDbState request has run yet: no target and no tool arguments.
NoDSN == [scheme |-> "none"]

IdleMig ==
  [state |-> "Idle", target |-> DefaultSqlite, oldType |-> "",
   toolErr |-> ErrNil, src |-> NoDSN, dst |-> NoDSN]

Init ==
  /\ \/ configJson = {} /\ backend = DefaultSqlite
     \/ configJson = {DefaultSqlite} /\ backend = DefaultSqlite
     \/ configJson = {StartPostgres} /\ backend = StartPostgres
  /\ db = EmptyDb
  /\ ret = Ret("none", ErrNil)
  /\ clientConfig = DefaultClientConfig
  /\ mig = IdleMig
  /\ req = NoBody
  /\ resp = Resp("none", 0, NoBody)
  /\ rd = IdleRead
  /\ proc = IdleProcs
  /\ configRest = (IF configJson = {} THEN {} ELSE OtherSections)

\* UpdateProvidersConfig(providers) for one submitted map p.
UpdateProvidersConfigOf(p) ==
  /\ db.nextKeyId + NumKeys(p) - 1 <= MaxKeyRowId
  /\ db.nextProviderId + Len(p) - 1 <= MaxProviderRowId
  /\ \E failAt \in 0..Len(ProvidersTxOps(p)), recordNotFound \in BOOLEAN :
       /\ recordNotFound => failAt = 1
       /\ db' = RunStatements(db, ProvidersTxOps(p), failAt, TRUE,
                              ForeignKeysEnforced(backend))
       \* an ErrRecordNotFound of the delete is returned as ErrNotFound
       /\ ret' = Ret("UpdateProvidersConfig",
                     IF recordNotFound THEN ErrNotFound ELSE ErrOf(failAt))
       /\ UNCHANGED <<backend, handlerVars>>

UpdateProvidersConfig == \E p \in ProviderMaps : UpdateProvidersConfigOf(p)

\* GetProvidersConfig: every provider row with the keys preloaded through
\* provider_id, converted to schemas.Key; nil without a provider row.
GetProvidersConfig(d) ==
  {[Name |-> r.Name,
    Keys |-> {[ID |-> k.KeyID, Value |-> k.Value, Weight |-> k.Weight] :
                k \in {x \in d.TableKey : x.ProviderID = r.ID}}] :
     r \in d.TableProvider}

\* The keys the Preload("Keys") query loads for provider rows read before:
\* SELECT ... WHERE provider_id IN (ids of the rows).
PreloadKeys(d, providers) ==
  {[Name |-> r.Name,
    Keys |-> {[ID |-> k.KeyID, Value |-> k.Value, Weight |-> k.Weight] :
                k \in {x \in d.TableKey : x.ProviderID = r.ID}}] :
     r \in providers}

\* GetProvidersConfig, first query: Find(&dbProviders) on the connection,
\* outside any transaction.  Without a provider row there is no second
\* query and the call returns.
GetProvidersConfigFind ==
  /\ rd.pc = "idle"
  /\ \E ok \in BOOLEAN :
       IF ~ok
         THEN /\ ret' = RetVal("GetProvidersConfig", ErrStorage, {})
              /\ UNCHANGED rd
       ELSE IF db.TableProvider = {}
         THEN /\ ret' = RetVal("GetProvidersConfig", ErrNil, {})
              /\ UNCHANGED rd
       ELSE /\ rd' = [pc |-> "preload", providers |-> db.TableProvider, db0 |-> db]
            /\ UNCHANGED ret
  /\ UNCHANGED <<proc, backend, db, configJson, clientConfig, mig, req, resp, configRest>>

\* GetProvidersConfig, second query and return: the keys of the provider
\* rows read by the first query, as stored now.
GetProvidersConfigPreload ==
  /\ rd.pc = "preload"
  /\ \E ok \in BOOLEAN :
       ret' = IF ok THEN RetVal("GetProvidersConfig", ErrNil,
                                PreloadKeys(db, rd.providers))
              ELSE RetVal("GetProvidersConfig", ErrStorage, {})
  /\ rd' = IdleRead
  /\ UNCHANGED <<proc, backend, db, configJson, clientConfig, mig, req, resp, configRest>>

\* A submitted map as the set of its entries.
ProvidersOf(p) ==
  {[Name |-> p[i].Name, Keys |-> {p[i].Keys[j] : j \in 1..Len(p[i].Keys)}] :
     i \in 1..Len(p)}

\* A replace that inserts the new clients without deleting the stored ones.
MCPTxOpsNoDelete(c) ==
  IF ~c.isNil /\ c.ClientConfigs # {}
    THEN <<[op |-> "CreateMCPClients", Rows |-> c.ClientConfigs]>> ELSE <<>>

MCPTxOps(c) ==
  <<[op |-> "DeleteMCPClients"]>>
  \o (IF ~c.isNil /\ c.ClientConfigs # {}
        THEN <<[op |-> "CreateMCPClients", Rows |-> c.ClientConfigs]>> ELSE <<>>)

\* UpdateMCPConfig(config) for one argument c.
UpdateMCPConfigOf(c) ==
  \E failAt \in 0..Len(MCPTxOps(c)) :
    /\ db' = RunStatements(db, MCPTxOps(c), failAt, TRUE,
                           ForeignKeysEnforced(backend))
    /\ ret' = Ret("UpdateMCPConfig", ErrOf(failAt))
    /\ UNCHANGED <<backend, handlerVars>>

UpdateMCPConfig == \E c \in MCPConfigs : UpdateMCPConfigOf(c)

\* GetMCPConfig: nil without a row, else the stored clients.
GetMCPConfig(d) ==
  IF d.TableMCPClient = {} THEN [isNil |-> TRUE, ClientConfigs |-> {}]
  ELSE [isNil |-> FALSE, ClientConfigs |-> d.TableMCPClient]

EnvTxOps(k) ==
  <<[op |-> "DeleteEnvKeys"]>>
  \o (IF k # {} THEN <<[op |-> "CreateEnvKeys", Rows |-> k]>> ELSE <<>>)

\* UpdateEnvKeys(keys) for one argument k.
UpdateEnvKeysOf(k) ==
  \E failAt \in 0..Len(EnvTxOps(k)) :
    /\ db' = RunStatements(db, EnvTxOps(k), failAt, TRUE,
                           ForeignKeysEnforced(backend))
    /\ ret' = Ret("UpdateEnvKeys", ErrOf(failAt))
    /\ UNCHANGED <<backend, handlerVars>>

UpdateEnvKeys == \E k \in EnvKeyMaps : UpdateEnvKeysOf(k)

\* envKeys[EnvVar] = append(envKeys[EnvVar], info): bindings grouped by
\* environment variable.
GroupByEnvVar(rows) ==
  {[EnvVar |-> e, Infos |-> {b \in rows : b.EnvVar = e}] :
     e \in {b.EnvVar : b \in rows}}

\* GetEnvKeys: the stored bindings as a map from environment variable.
GetEnvKeys(d) == GroupByEnvVar(d.TableEnvKey)

\* The TableVirtualKey values a caller passes: the row and its Keys field
\* (rows of TableKey the caller loaded, e.g. through GetKeysByIDs).
VirtualKeyRows == [ID : VirtualKeyIDs, Budget : Budgets]

StoredKeyRowIds == {k.ID : k \in db.TableKey}

CreateVirtualKeyOps(vk, keys) ==
  <<[op |-> "CreateVirtualKey", Row |-> vk]>>
  \o (IF keys # {} THEN <<[op |-> "AppendKeys", ID |-> vk.ID, Keys |-> keys]>>
      ELSE <<>>)

\* Create fails on an id that is already stored (primary key).
CreateVirtualKeyOf(vk, keys, inTx) ==
  \E failAt \in 0..Len(CreateVirtualKeyOps(vk, keys)) :
    /\ (\E r \in db.TableVirtualKey : r.ID = vk.ID) => failAt = 1
    /\ db' = RunStatements(db, CreateVirtualKeyOps(vk, keys), failAt, inTx,
                           ForeignKeysEnforced(backend))
    /\ ret' = Ret("CreateVirtualKey", ErrOf(failAt))
    /\ UNCHANGED <<backend, handlerVars>>

CreateVirtualKey ==
  \E vk \in VirtualKeyRows, keys \in SUBSET StoredKeyRowIds, inTx \in BOOLEAN :
    CreateVirtualKeyOf(vk, keys, inTx)

\* An update that saves the row and clears the associations without
\* attaching the submitted keys again.
UpdateVirtualKeyOpsNoAppend(vk, keys) ==
  <<[op |-> "SaveVirtualKey", Row |-> vk], [op |-> "ClearKeys", ID |-> vk.ID]>>

UpdateVirtualKeyOps(vk, keys) ==
  <<[op |-> "SaveVirtualKey", Row |-> vk], [op |-> "ClearKeys", ID |-> vk.ID]>>
  \o (IF keys # {} THEN <<[op |-> "AppendKeys", ID |-> vk.ID, Keys |-> keys]>>
      ELSE <<>>)

\* UpdateVirtualKey(virtualKey, tx...) for one row, key set and handle.
UpdateVirtualKeyOf(vk, keys, inTx) ==
  \E failAt \in 0..Len(UpdateVirtualKeyOps(vk, keys)) :
    /\ db' = RunStatements(db, UpdateVirtualKeyOps(vk, keys), failAt, inTx,
                           ForeignKeysEnforced(backend))
    /\ ret' = Ret("UpdateVirtualKey", ErrOf(failAt))
    /\ UNCHANGED <<backend, handlerVars>>

UpdateVirtualKey ==
  \E vk \in VirtualKeyRows, keys \in SUBSET StoredKeyRowIds, inTx \in BOOLEAN :
    UpdateVirtualKeyOf(vk, keys, inTx)

\* s.db.Delete(&TableVirtualKey{}, "id = ?", id): one DELETE on the
\* virtual-key table.  The rows of the join table go with it only where the
\* connection enforces the foreign key of the join table.
DeleteVirtualKeyRow(d, id, fk) ==
  [d EXCEPT !.TableVirtualKey = {r \in d.TableVirtualKey : r.ID # id},
            !.VirtualKeyKeys = IF fk
                                 THEN {a \in d.VirtualKeyKeys : a.VirtualKeyID # id}
                                 ELSE d.VirtualKeyKeys]

\* DeleteVirtualKey(id): a delete that matches no row returns nil too.
DeleteVirtualKeyOf(id) ==
  \E ok \in BOOLEAN :
    /\ db' = IF ok THEN DeleteVirtualKeyRow(db, id, ForeignKeysEnforced(backend))
             ELSE db
    /\ ret' = Ret("DeleteVirtualKey", IF ok THEN ErrNil ELSE ErrStorage)
    /\ UNCHANGED <<backend, handlerVars>>

DeleteVirtualKey == \E id \in VirtualKeyIDs : DeleteVirtualKeyOf(id)

(***************************************************************************)
(* Reads of virtual keys.  The Keys relation is preloaded with             *)
(* Select("id, key_id, models_json"): the other fields of each loaded      *)
(* TableKey keep Go's zero value.                                          *)
(***************************************************************************)
ErrRecordNotFound == "record not found"


\* A Preload("Keys") without the Select callback loads the whole row.
PreloadAllColumns(k) == k

\* db.Select("id, key_id, models_json") on the preloaded Keys.
PreloadSelect(k) ==
  [ID |-> k.ID, KeyID |-> k.KeyID, Provider |-> "", ProviderID |-> 0,
   Value |-> "", Weight |-> 0]

\* One TableVirtualKey with its Keys relation loaded through the join table.
LoadVirtualKey(d, vk) ==
  [ID |-> vk.ID, Budget |-> vk.Budget,
   Keys |-> {PreloadSelect(k) : k \in
               {x \in d.TableKey :
                  \E a \in d.VirtualKeyKeys :
                    a.VirtualKeyID = vk.ID /\ a.KeyID = x.ID}}]

GetVirtualKeys ==
  /\ \E ok \in BOOLEAN :
       ret' = IF ok
                THEN RetVal("GetVirtualKeys", ErrNil,
                            {LoadVirtualKey(db, vk) : vk \in db.TableVirtualKey})
                ELSE RetVal("GetVirtualKeys", ErrStorage, {})
  /\ UNCHANGED <<backend, db, handlerVars>>

\* First(&virtualKey, "id = ?", id): the gorm error is returned as it is.
GetVirtualKeyOf(id, ok) ==
  /\ LET rows == {vk \in db.TableVirtualKey : vk.ID = id}
     IN ret' = IF ~ok THEN RetVal("GetVirtualKey", ErrStorage, {})
               ELSE IF rows = {} THEN RetVal("GetVirtualKey", ErrRecordNotFound, {})
               ELSE RetVal("GetVirtualKey", ErrNil,
                           {LoadVirtualKey(db, vk) : vk \in rows})
  /\ UNCHANGED <<backend, db, handlerVars>>

GetVirtualKey == \E id \in VirtualKeyIDs, ok \in BOOLEAN : GetVirtualKeyOf(id, ok)

(***************************************************************************)
(* The other entities read by id: teams, customers, rate limits, budgets,  *)
(* plugins and key/value configs.  Each is created by one statement and    *)
(* read with First(): gorm answers ErrRecordNotFound when no row matches.  *)
(***************************************************************************)
TeamIDs == {"t1"}
CustomerIDs == {"c1"}
RateLimitIDs == {"rl1"}
\* A virtual key names its budget by this id (BudgetID, a member of Budgets).
BudgetIDs == {"b1"}
PluginNames == {"plugin1"}
ConfigKeys == {"cfg1"}

\* The error of tx.First(&row, cond): a storage failure, no matching row,
\* or nil.
First(rows, ok) ==
  IF ~ok THEN ErrStorage
  ELSE IF rows = {} THEN ErrRecordNotFound
  ELSE ErrNil

\* if errors.Is(err, gorm.ErrRecordNotFound) { return nil, ErrNotFound }
\* return nil, err
MapRecordNotFound(err) == IF err = ErrRecordNotFound THEN ErrNotFound ELSE err

\* The value a read returns: nil with an error, else the row.
Loaded(rows, err) == IF err = ErrNil THEN rows ELSE {}

\* txDB.Create(row): fails on a stored primary key or a storage failure.
CreateRow(op, table, row, ok) ==
  LET created == ok /\ row \notin db[table]
  IN /\ db' = IF created THEN [db EXCEPT ![table] = db[table] \cup {row}] ELSE db
     /\ ret' = Ret(op, IF created THEN ErrNil ELSE ErrStorage)
     /\ UNCHANGED <<backend, handlerVars>>

CreateTeam ==
  \E id \in TeamIDs, ok \in BOOLEAN : CreateRow("CreateTeam", "TableTeam", [ID |-> id], ok)

CreateCustomer ==
  \E id \in CustomerIDs, ok \in BOOLEAN :
    CreateRow("CreateCustomer", "TableCustomer", [ID |-> id], ok)

CreateRateLimit ==
  \E id \in RateLimitIDs, ok \in BOOLEAN :
    CreateRow("CreateRateLimit", "TableRateLimit", [ID |-> id], ok)

CreateBudget ==
  \E id \in BudgetIDs, ok \in BOOLEAN :
    CreateRow("CreateBudget", "TableBudget", [ID |-> id], ok)

CreatePlugin ==
  \E n \in PluginNames, ok \in BOOLEAN :
    CreateRow("CreatePlugin", "TablePlugin", [Name |-> n], ok)

\* UpdateConfig: txDB.Save(config) inserts the row or updates it.
UpdateConfig ==
  \E k \in ConfigKeys, ok \in BOOLEAN :
    /\ db' = IF ok THEN [db EXCEPT !.TableConfig = db.TableConfig \cup {[Key |-> k]}]
             ELSE db
    /\ ret' = Ret("UpdateConfig", IF ok THEN ErrNil ELSE ErrStorage)
    /\ UNCHANGED <<backend, handlerVars>>

(***************************************************************************)
(* The multi-row updates UpdateBudgets and UpdateRateLimits: one           *)
(* txDB.Save per element, on the handle when one is passed, else on the    *)
(* bare connection.                                                        *)
(***************************************************************************)
Limits == {10, 20}

\* The slices submitted: one or two rows with different ids.
RowLists(ids) ==
  {l \in UNION {[1..n -> [ID : ids, Limit : Limits]] : n \in 1..2} :
     \A i, j \in DOMAIN l : i # j => l[i].ID # l[j].ID}

RECURSIVE SaveRows(_, _, _)
\* The table after txDB.Save of the first n elements: each replaces the
\* row of its primary key or is inserted.
SaveRows(t, rows, n) ==
  IF n = 0 THEN t
  ELSE {r \in SaveRows(t, rows, n - 1) : r.ID # rows[n].ID} \cup {rows[n]}

\* The loop of UpdateBudgets / UpdateRateLimits over one slice.
UpdateRowsOf(op, table, rows, inTx) ==
  \E failAt \in 0..Len(rows) :
    LET post == [db EXCEPT ![table] =
                   SaveRows(db[table], rows, Executed(rows, failAt))]
    IN /\ db' = IF inTx THEN Transaction(db, post, ErrOf(failAt)) ELSE post
       /\ ret' = Ret(op, ErrOf(failAt))
       /\ UNCHANGED <<backend, handlerVars>>

UpdateBudgets ==
  \E rows \in RowLists({"bg1", "bg2"}), inTx \in BOOLEAN :
    UpdateRowsOf("UpdateBudgets", "TableBudget", rows, inTx)

UpdateRateLimits ==
  \E rows \in RowLists({"rl1", "rl2"}), inTx \in BOOLEAN :
    UpdateRowsOf("UpdateRateLimits", "TableRateLimit", rows, inTx)

(***************************************************************************)
(* UpdatePlugin: delete by name, then create, inside a transaction of its  *)
(* own (s.db.Begin / Commit / Rollback) when no handle is passed, else as  *)
(* two statements of the caller's transaction (ExecuteTransaction).        *)
(***************************************************************************)
PluginRows == [Name : {"plugin1", "plugin2"}, Enabled : BOOLEAN]

\* The plugin table after the first n statements of UpdatePlugin(p).
UpdatePluginRows(t, p, n) ==
  IF n = 0 THEN t
  ELSE IF n = 1 THEN {r \in t : r.Name # p.Name}
  ELSE {r \in t : r.Name # p.Name} \cup {p}

\* UpdatePlugin(p) without a handle; failAt = 3 is a failing Commit.
UpdatePluginOf(p) ==
  \E failAt \in 0..3 :
    LET n == IF failAt = 0 THEN 2 ELSE Min({failAt - 1, 2})
        post == [db EXCEPT !.TablePlugin = UpdatePluginRows(db.TablePlugin, p, n)]
    IN /\ db' = Transaction(db, post, ErrOf(failAt))
       /\ ret' = RetVal("UpdatePlugin", ErrOf(failAt), "local")
       /\ UNCHANGED <<backend, handlerVars>>

UpdatePlugin == \E p \in PluginRows : UpdatePluginOf(p)

\* ExecuteTransaction(fn): goroutine g's transaction begins.
BeginTransaction ==
  \E g \in Goroutines :
    /\ proc[g].pc = "idle"
    /\ \A h \in Goroutines : proc[h].pc = "idle"
    /\ proc' = [proc EXCEPT ![g] = [pc |-> "inTx", op |-> "ExecuteTransaction",
                                    cur |-> db.TablePlugin]]
    /\ UNCHANGED <<backend, db, ret, configJson, clientConfig, mig, req, resp, rd, configRest>>

\* UpdatePlugin(p, tx) inside goroutine g's transaction: the statements
\* that ran take effect inside the transaction, which stays open.
UpdatePluginInTx ==
  \E g \in Goroutines, p \in PluginRows, failAt \in 0..2 :
    /\ proc[g].pc = "inTx" /\ proc[g].op = "ExecuteTransaction"
    /\ proc' = [proc EXCEPT ![g].cur =
                  UpdatePluginRows(@, p, Executed(<<1, 2>>, failAt))]
    /\ ret' = RetVal("UpdatePlugin", ErrOf(failAt), "handle")
    /\ UNCHANGED <<backend, db, configJson, clientConfig, mig, req, resp, rd, configRest>>

\* fn returns: nil commits the transaction, an error rolls it back.
EndTransaction ==
  \E g \in Goroutines, commit \in BOOLEAN :
    /\ proc[g].pc = "inTx" /\ proc[g].op = "ExecuteTransaction"
    /\ db' = IF commit THEN [db EXCEPT !.TablePlugin = proc[g].cur] ELSE db
    /\ ret' = Ret("ExecuteTransaction", IF commit THEN ErrNil ELSE ErrStorage)
    /\ proc' = [proc EXCEPT ![g] = IdleProc]
    /\ UNCHANGED <<backend, configJson, clientConfig, mig, req, resp, rd, configRest>>

\* GetTeam: the error of First is returned as it is.
GetTeamOf(id, ok) ==
  /\ LET rows == {r \in db.TableTeam : r.ID = id}
         err == First(rows, ok)
     IN ret' = RetVal("GetTeam", err, Loaded(rows, err))
  /\ UNCHANGED <<backend, db, handlerVars>>

GetTeam == \E id \in TeamIDs, ok \in BOOLEAN : GetTeamOf(id, ok)

\* GetCustomer: the error of First is returned as it is.
GetCustomerOf(id, ok) ==
  /\ LET rows == {r \in db.TableCustomer : r.ID = id}
         err == First(rows, ok)
     IN ret' = RetVal("GetCustomer", err, Loaded(rows, err))
  /\ UNCHANGED <<backend, db, handlerVars>>

GetCustomer == \E id \in CustomerIDs, ok \in BOOLEAN : GetCustomerOf(id, ok)

\* GetRateLimit: the error of First is returned as it is.
GetRateLimitOf(id, ok) ==
  /\ LET rows == {r \in db.TableRateLimit : r.ID = id}
         err == First(rows, ok)
     IN ret' = RetVal("GetRateLimit", err, Loaded(rows, err))
  /\ UNCHANGED <<backend, db, handlerVars>>

GetRateLimit == \E id \in RateLimitIDs, ok \in BOOLEAN : GetRateLimitOf(id, ok)

\* GetBudget: ErrRecordNotFound is returned as ErrNotFound.
GetBudgetOf(id, ok) ==
  /\ LET rows == {r \in db.TableBudget : r.ID = id}
         err == MapRecordNotFound(First(rows, ok))
     IN ret' = RetVal("GetBudget", err, Loaded(rows, err))
  /\ UNCHANGED <<backend, db, handlerVars>>

GetBudget == \E id \in BudgetIDs, ok \in BOOLEAN : GetBudgetOf(id, ok)

\* GetPlugin: ErrRecordNotFound is returned as ErrNotFound.
GetPluginOf(n, ok) ==
  /\ LET rows == {r \in db.TablePlugin : r.Name = n}
         err == MapRecordNotFound(First(rows, ok))
     IN ret' = RetVal("GetPlugin", err, Loaded(rows, err))
  /\ UNCHANGED <<backend, db, handlerVars>>

GetPlugin == \E n \in PluginNames, ok \in BOOLEAN : GetPluginOf(n, ok)

\* GetConfig: ErrRecordNotFound is returned as ErrNotFound.
GetConfigOf(k, ok) ==
  /\ LET rows == {r \in db.TableConfig : r.Key = k}
         err == MapRecordNotFound(First(rows, ok))
     IN ret' = RetVal("GetConfig", err, Loaded(rows, err))
  /\ UNCHANGED <<backend, db, handlerVars>>

GetConfig == \E k \in ConfigKeys, ok \in BOOLEAN : GetConfigOf(k, ok)

(***************************************************************************)
(* Startup repair of the legacy config_keys table.  It runs when a store   *)
(* is opened, before AutoMigrate: null rows are deleted first, then every  *)
(* row that is not the lowest id of its (key_id, value) group.  The two    *)
(* statements are executed on the bare connection.                         *)
(***************************************************************************)
MaxLegacyRowId == 3

\* SQL NULL in a column of a legacy row.
Null == "NULL"

LegacyKeyIDs == {Null, "k1", "k2"}
LegacyValues == {Null, "", "sk-abc"}

\* config_keys as an older release left it: rows of (id, key_id, value),
\* id being the primary key.
LegacyTables ==
  UNION {{{[ID |-> i, KeyID |-> f[i].KeyID, Value |-> f[i].Value] : i \in S} :
            f \in [S -> [KeyID : LegacyKeyIDs, Value : LegacyValues]]} :
           S \in SUBSET (1..MaxLegacyRowId)}

\* DELETE FROM config_keys WHERE key_id IS NULL OR value IS NULL
removeNullKeys(t) == {r \in t : r.KeyID # Null /\ r.Value # Null}

\* The lowest id of each (key_id, value) group.
MinIdOfGroups(t) ==
  {Min({x.ID : x \in {y \in t : y.KeyID = r.KeyID /\ y.Value = r.Value}}) : r \in t}

\* A delete that removes only the highest id of each group with more than
\* one row.
removeNewestDuplicate(t) ==
  {r \in t :
     (\A y \in t : (y.KeyID = r.KeyID /\ y.Value = r.Value) => y = r)
     \/ (\E z \in t : z.KeyID = r.KeyID /\ z.Value = r.Value /\ z.ID > r.ID)}

\* DELETE ... WHERE id NOT IN (SELECT MIN(id) ... GROUP BY key_id, value)
removeDuplicateKeys(t) == {r \in t : r.ID \in MinIdOfGroups(t)}

\* Rows numbered rn > 1 inside their (key_id, value) partition, ordered by id.
Duplicates(t) ==
  {r \in t : \E x \in t : x.KeyID = r.KeyID /\ x.Value = r.Value /\ x.ID < r.ID}

\* The same delete with the partition ordered by id DESC: the highest id
\* of each group stays.
removeOlderDuplicatesPostgres(t) ==
  {r \in t : ~\E x \in t : x.KeyID = r.KeyID /\ x.Value = r.Value /\ x.ID > r.ID}

\* WITH duplicates AS (...) DELETE ... WHERE id IN (SELECT id FROM duplicates)
removeDuplicateKeysPostgres(t) == t \ Duplicates(t)

\* The table after the statements that ran: failAt = 1 fails the first
\* delete, failAt = 2 the second, after the first has taken effect.
RepairedTable(t, failAt, deduped) ==
  IF failAt = 1 THEN t
  ELSE IF failAt = 2 THEN removeNullKeys(t)
  ELSE deduped

\* removeDuplicateKeysAndNullKeys, as newSqliteConfigStore calls it.  The
\* table check answers false on a query error too, and the repair is then
\* skipped without an error.
removeDuplicateKeysAndNullKeys ==
  /\ backend.Type = ConfigStoreTypeSQLite
  /\ \E tableFound \in BOOLEAN, failAt \in 0..2 :
       /\ ~tableFound => failAt = 0
       /\ IF ~tableFound
            THEN /\ ret' = RetVal("removeDuplicateKeysAndNullKeys", ErrNil, "skipped")
                 /\ UNCHANGED db
            ELSE /\ db' = [db EXCEPT !.TableKey =
                            RepairedTable(db.TableKey, failAt,
                                          removeDuplicateKeys(removeNullKeys(db.TableKey)))]
                 /\ ret' = RetVal("removeDuplicateKeysAndNullKeys", ErrOf(failAt),
                                  "repaired")
  /\ UNCHANGED <<backend, handlerVars>>

\* removeDuplicateKeysAndNullKeysPostgres, as newPostgresConfigStore calls
\* it.  An error of the table check is returned; a missing table (possible
\* only without rows) skips the repair.
removeDuplicateKeysAndNullKeysPostgres ==
  /\ backend.Type = ConfigStoreTypePostgres
  /\ \E checkOk \in BOOLEAN, exists \in BOOLEAN, failAt \in 0..2 :
       /\ (~checkOk \/ ~exists) => failAt = 0
       /\ ~exists => (checkOk /\ db.TableKey = {})
       /\ IF ~checkOk
            THEN /\ ret' = RetVal("removeDuplicateKeysAndNullKeysPostgres",
                                  ErrStorage, "skipped")
                 /\ UNCHANGED db
          ELSE IF ~exists
            THEN /\ ret' = RetVal("removeDuplicateKeysAndNullKeysPostgres",
                                  ErrNil, "skipped")
                 /\ UNCHANGED db
          ELSE /\ db' = [db EXCEPT !.TableKey =
                          RepairedTable(db.TableKey, failAt,
                                          removeDuplicateKeysPostgres(removeNullKeys(db.TableKey)))]
               /\ ret' = RetVal("removeDuplicateKeysAndNullKeysPostgres",
                                ErrOf(failAt), "repaired")
  /\ UNCHANGED <<backend, handlerVars>>

\* What a constructor call did: the outcome of the table probe, the repair
\* error, whether AutoMigrate ran and whether a store was returned.
Started(probeOk, present, repairErr, migrated, err) ==
  [probeOk |-> probeOk, present |-> present, repairErr |-> repairErr,
   autoMigrate |-> migrated, store |-> err = ErrNil]

\* newSqliteConfigStore: open, removeDuplicateKeysAndNullKeys, AutoMigrate.
\* doesTableExist answers false when its query fails.
newSqliteConfigStore ==
  /\ backend.Type = ConfigStoreTypeSQLite
  /\ \E openOk, probeOk, present, migrateOk \in BOOLEAN, failAt \in 0..2 :
       LET tableFound == probeOk /\ present
           repairErr == IF openOk /\ tableFound THEN ErrOf(failAt) ELSE ErrNil
           migrated == openOk /\ repairErr = ErrNil
           err == IF openOk /\ repairErr = ErrNil /\ migrateOk
                    THEN ErrNil ELSE ErrStorage
       IN /\ ~present => db.TableKey = {}
          /\ db' = IF openOk /\ tableFound
                     THEN [db EXCEPT !.TableKey =
                            RepairedTable(db.TableKey, failAt,
                                          removeDuplicateKeys(removeNullKeys(db.TableKey)))]
                     ELSE db
          /\ ret' = RetVal("newSqliteConfigStore", err,
                           Started(probeOk, present, repairErr, migrated, err))
  /\ UNCHANGED <<backend, handlerVars>>

\* newPostgresConfigStore: open, removeDuplicateKeysAndNullKeysPostgres,
\* AutoMigrate.  An error of the table probe is the repair's error.
newPostgresConfigStore ==
  /\ backend.Type = ConfigStoreTypePostgres
  /\ \E openOk, probeOk, present, migrateOk \in BOOLEAN, failAt \in 0..2 :
       LET repairErr == IF ~openOk THEN ErrNil
                        ELSE IF ~probeOk THEN ErrStorage
                        ELSE IF present THEN ErrOf(failAt) ELSE ErrNil
           migrated == openOk /\ repairErr = ErrNil
           err == IF openOk /\ repairErr = ErrNil /\ migrateOk
                    THEN ErrNil ELSE ErrStorage
       IN /\ ~present => db.TableKey = {}
          /\ db' = IF openOk /\ probeOk /\ present
                     THEN [db EXCEPT !.TableKey =
                            RepairedTable(db.TableKey, failAt,
                                          removeDuplicateKeysPostgres(removeNullKeys(db.TableKey)))]
                     ELSE db
          /\ ret' = RetVal("newPostgresConfigStore", err,
                           Started(probeOk, present, repairErr, migrated, err))
  /\ UNCHANGED <<backend, handlerVars>>

\* A store opened on a legacy dataset: any legacy config_keys table.
InitRepair ==
  /\ \/ configJson = {} /\ backend = DefaultSqlite
     \/ configJson = {StartPostgres} /\ backend = StartPostgres
  /\ \E t \in LegacyTables : db = [EmptyDb EXCEPT !.TableKey = t]
  /\ ret = Ret("none", ErrNil)
  /\ clientConfig = DefaultClientConfig
  /\ mig = IdleMig
  /\ req = NoBody
  /\ resp = Resp("none", 0, NoBody)
  /\ rd = IdleRead
  /\ proc = IdleProcs
  /\ configRest = (IF configJson = {} THEN {} ELSE OtherSections)

(***************************************************************************)
(* Vector-store and log-store configuration: DbConfigStore methods, the    *)
(* merge of the config handler and the admin endpoints.                    *)
(***************************************************************************)
RedactionSentinel == "<redacted>"

VectorStoreTypeWeaviate == "weaviate"
VectorStoreTypeRedis == "redis"

Secrets == {"", "sk-1", RedactionSentinel}
RedisAddrs == {"localhost:6379", RedactionSentinel}

WeaviateConfigs == [kind : {"WeaviateConfig"}, Host : {"localhost:8080"}, ApiKey : Secrets]

RedisConfigs == [kind : {"RedisConfig"}, Addr : RedisAddrs, Password : Secrets]

\* vectorstore.Config as decoded from a request body.
VectorStoreConfigs ==
  [Enabled : {TRUE}, Type : {VectorStoreTypeWeaviate}, Config : WeaviateConfigs]
  \cup [Enabled : {TRUE}, Type : {VectorStoreTypeRedis}, Config : RedisConfigs]

\* logstore.Config as decoded from a request body.
LogStoreConfigs ==
  [Enabled : BOOLEAN, Type : {"sqlite"},
   Config : [kind : {"SQLiteConfig"}, Path : {"logs.db"}]]

\* bifrost.MarshalToStringPtr: the value as a JSON string.
MarshalToStringPtr(v) == [kind |-> "string", json |-> v]

\* json.Unmarshal of a stored JSON string.
Unmarshal(str) == str.json

\* lib.IsRedacted
IsRedacted(v) == v = RedactionSentinel

\* GetVectorStoreConfig: nil without a row, else the row's Enabled, Type
\* and its Config column as stored (the JSON string).
GetVectorStoreConfig(d) ==
  IF d.TableVectorStoreConfig = {} THEN NilConfig
  ELSE LET row == CHOOSE r \in d.TableVectorStoreConfig : TRUE
       IN [kind |-> "Config", Enabled |-> row.Enabled, Config |-> row.Config,
           Type |-> row.Type]

\* &vectorstore.Config{}
ZeroVectorStoreConfig ==
  [kind |-> "Config", Enabled |-> FALSE, Config |-> NilConfig, Type |-> ""]

\* A merge that keeps the stored Config whenever the submitted secret is
\* redacted, whatever the two types are.
mergeAcrossVariants(oldConfig, newConfig) ==
  IF IsRedacted(IF newConfig.Config.kind = "WeaviateConfig"
                  THEN newConfig.Config.ApiKey ELSE newConfig.Config.Password)
     /\ oldConfig.Config # NilConfig
    THEN [newConfig EXCEPT !.Config = oldConfig.Config]
    ELSE newConfig

\* mergeVectorStoreConfig: start from the new config; for equal Type and
\* both Config values of the variant's Go type, keep the old ApiKey (Weaviate)
\* or the old Addr (Redis) when the new one is redacted and the old one is set.
mergeVectorStoreConfig(oldConfig, newConfig) ==
  IF oldConfig.Type # newConfig.Type THEN newConfig
  ELSE CASE newConfig.Type = VectorStoreTypeWeaviate ->
              IF oldConfig.Config.kind = "WeaviateConfig"
                 /\ newConfig.Config.kind = "WeaviateConfig"
                THEN IF IsRedacted(newConfig.Config.ApiKey) /\ oldConfig.Config.ApiKey # ""
                       THEN [newConfig EXCEPT !.Config.ApiKey = oldConfig.Config.ApiKey]
                       ELSE newConfig
                ELSE newConfig
         [] newConfig.Type = VectorStoreTypeRedis ->
              IF oldConfig.Config.kind = "RedisConfig"
                 /\ newConfig.Config.kind = "RedisConfig"
                THEN IF IsRedacted(newConfig.Config.Addr) /\ oldConfig.Config.Addr # ""
                       THEN [newConfig EXCEPT !.Config.Addr = oldConfig.Config.Addr]
                       ELSE newConfig
                ELSE newConfig
         [] OTHER -> newConfig

\* The statements of UpdateVectorStoreConfig's transaction.
VectorStoreTxOps(c) ==
  <<[op |-> "DeleteVectorStoreConfig"],
    [op |-> "CreateVectorStoreConfig",
     Row |-> [Type |-> c.Type, Enabled |-> c.Enabled,
              Config |-> MarshalToStringPtr(c.Config)]]>>

\* The statements of UpdateLogsStoreConfig's transaction.
LogStoreTxOps(c) ==
  <<[op |-> "DeleteLogStoreConfig"],
    [op |-> "CreateLogStoreConfig",
     Row |-> [Type |-> c.Type, Enabled |-> c.Enabled,
              Config |-> MarshalToStringPtr(c)]]>>

\* GetLogsStoreConfig: nil without a row, else the stored JSON decoded.
GetLogsStoreConfig(d) ==
  IF d.TableLogStoreConfig = {} THEN NilConfig
  ELSE Unmarshal((CHOOSE r \in d.TableLogStoreConfig : TRUE).Config)

\* The secret field of a typed vector-store config.
SecretOf(c) ==
  IF c.kind = "WeaviateConfig" THEN c.ApiKey
  ELSE IF c.kind = "RedisConfig" THEN c.Password ELSE ""

\* Config.GetVectorStoreConfigRedacted: the stored config with its secret
\* field replaced by the sentinel.
GetVectorStoreConfigRedacted(d) ==
  IF d.TableVectorStoreConfig = {} THEN NilConfig
  ELSE LET row == CHOOSE r \in d.TableVectorStoreConfig : TRUE
           c == Unmarshal(row.Config)
       IN [Enabled |-> row.Enabled, Type |-> row.Type,
           Config |-> IF c.kind = "WeaviateConfig"
                        THEN [c EXCEPT !.ApiKey = RedactionSentinel]
                        ELSE [c EXCEPT !.Password = RedactionSentinel]]

\* GET /api/config/vector-store
getVectorStoreConfig ==
  /\ \E ok \in BOOLEAN :
       resp' = IF ok THEN Resp("getVectorStoreConfig", 200, GetVectorStoreConfigRedacted(db))
               ELSE Resp("getVectorStoreConfig", 500, NoBody)
  /\ req' = NoBody
  /\ UNCHANGED <<proc, rd, backend, db, ret, configJson, clientConfig, mig, configRest>>

\* PUT /api/config/vector-store
updateVectorStoreConfig ==
  \E r \in VectorStoreConfigs, getOk \in BOOLEAN, failAt \in 0..2 :
    LET oldRead == GetVectorStoreConfig(db)
        oldConfigRaw == IF oldRead = NilConfig THEN ZeroVectorStoreConfig ELSE oldRead
        mergedConfig == mergeVectorStoreConfig(oldConfigRaw, r)
    IN /\ req' = r
       /\ ~getOk => failAt = 0
       /\ IF ~getOk
            THEN /\ resp' = Resp("updateVectorStoreConfig", 500, NoBody)
                 /\ UNCHANGED <<db, ret>>
            ELSE /\ db' = RunStatements(db, VectorStoreTxOps(mergedConfig), failAt,
                                        TRUE, ForeignKeysEnforced(backend))
                 /\ ret' = Ret("UpdateVectorStoreConfig", ErrOf(failAt))
                 /\ resp' = Resp("updateVectorStoreConfig",
                                 IF failAt = 0 THEN 200 ELSE 500, NoBody)
       /\ UNCHANGED <<proc, rd, backend, configJson, clientConfig, mig, configRest>>

\* GET /api/config/log-store
getLogStoreConfig ==
  /\ \E ok \in BOOLEAN :
       resp' = IF ok THEN Resp("getLogStoreConfig", 200, GetLogsStoreConfig(db))
               ELSE Resp("getLogStoreConfig", 500, NoBody)
  /\ req' = NoBody
  /\ UNCHANGED <<proc, rd, backend, db, ret, configJson, clientConfig, mig, configRest>>

\* PUT /api/config/log-store
updateLogStoreConfig ==
  \E r \in LogStoreConfigs, failAt \in 0..2 :
    /\ req' = r
    /\ db' = RunStatements(db, LogStoreTxOps(r), failAt, TRUE,
                           ForeignKeysEnforced(backend))
    /\ ret' = Ret("UpdateLogsStoreConfig", ErrOf(failAt))
    /\ resp' = Resp("updateLogStoreConfig", IF failAt = 0 THEN 200 ELSE 500, NoBody)
    /\ UNCHANGED <<proc, rd, backend, configJson, clientConfig, mig, configRest>>

\* GET /api/db: the config-store section of config.json as stored, or the
\* default SQLite answer when there is none.
GetDbState ==
  /\ \E ok \in BOOLEAN :
       resp' = IF ~ok THEN Resp("GetDbState", 500, NoBody)
               ELSE IF configJson # {}
                 THEN LET c == CHOOSE x \in configJson : TRUE
                      IN Resp("GetDbState", 200,
                              [enabled |-> c.Enabled, type |-> c.Type, config |-> c.Config])
                 ELSE Resp("GetDbState", 200,
                           [enabled |-> TRUE, type |-> "sqlite",
                            config |-> [kind |-> "map", path |-> "config.db"]])
  /\ req' = NoBody
  /\ UNCHANGED <<proc, rd, backend, db, ret, configJson, clientConfig, mig, configRest>>

(***************************************************************************)
(* Client config through the config handler, and the backend migration     *)
(* handler.  UpdateDbState blocks in cmd.Run() while pgloader transfers;   *)
(* the other handlers run on their own goroutines meanwhile, so the        *)
(* request is modelled in two steps around the transfer.  One UpdateDbState *)
(* request is in flight at a time.                                         *)
(***************************************************************************)
PoolSizes == {1}
BodySizesMB == {1, 2}

\* Bodies of PUT /api/config.
ClientConfigs ==
  [DropExcessRequests : BOOLEAN, InitialPoolSize : PoolSizes,
   MaxRequestBodySizeMB : BodySizesMB]

\* The row UpdateClientConfig builds: MaxRequestBodySizeMB is not a column
\* it fills.
ClientConfigRow(c) ==
  [DropExcessRequests |-> c.DropExcessRequests,
   InitialPoolSize |-> c.InitialPoolSize]

\* The statements of UpdateClientConfig's transaction.
ClientConfigTxOps(c) ==
  <<[op |-> "DeleteClientConfig"],
    [op |-> "CreateClientConfig", Row |-> ClientConfigRow(c)]>>

\* GetClientConfig: nil without a row, else the row's columns; the field
\* the row does not carry has Go's zero value.
GetClientConfig(d) ==
  IF d.TableClientConfig = {} THEN NilConfig
  ELSE LET r == CHOOSE x \in d.TableClientConfig : TRUE
       IN [DropExcessRequests |-> r.DropExcessRequests,
           InitialPoolSize |-> r.InitialPoolSize,
           MaxRequestBodySizeMB |-> 0]

\* GET /api/config, with or without from_db=true.
getConfig ==
  /\ \E fromDb \in BOOLEAN, ok \in BOOLEAN :
       /\ ~fromDb => ok
       /\ resp' = IF ~ok THEN Resp("getConfig", 500, NoBody)
                  ELSE Resp("getConfig", 200,
                            [kind |-> "config", from_db |-> fromDb,
                             client_config |-> IF fromDb THEN GetClientConfig(db)
                                               ELSE clientConfig])
       /\ ret' = IF fromDb
                   THEN Ret("GetClientConfig", IF ok THEN ErrNil ELSE ErrStorage)
                   ELSE ret
  /\ UNCHANGED <<proc, rd, backend, db, configJson, clientConfig, mig, req, configRest>>

\* PUT /api/config: the in-memory config is assigned before the store is
\* written, and stays assigned when the write fails.
updateConfig ==
  \E valid \in BOOLEAN, r \in ClientConfigs, failAt \in 0..2 :
    /\ ~valid => failAt = 0
    /\ IF ~valid
         THEN /\ resp' = Resp("updateConfig", 400, NoBody)
              /\ UNCHANGED <<db, ret, clientConfig>>
         ELSE /\ clientConfig' = r
              /\ db' = RunStatements(db, ClientConfigTxOps(r), failAt, TRUE,
                                     ForeignKeysEnforced(backend))
              /\ ret' = Ret("UpdateClientConfig", ErrOf(failAt))
              /\ resp' = Resp("updateConfig", IF failAt = 0 THEN 200 ELSE 500, NoBody)
    /\ UNCHANGED <<proc, rd, backend, configJson, mig, req, configRest>>

(***************************************************************************)
(* Two PUT /api/config requests at once.  The handler takes no lock        *)
(* between reading h.store.ClientConfig, assigning it and writing the      *)
(* store, so the two steps of one request can enclose those of the other.  *)
(***************************************************************************)
\* Goroutine g up to and including h.store.ClientConfig = updatedConfig.
updateConfigAssign ==
  \E g \in Goroutines, r \in ClientConfigs :
    /\ proc[g].pc \in {"idle", "done"}
    /\ clientConfig' = r
    /\ proc' = [proc EXCEPT ![g] = [pc |-> "assigned", op |-> "updateConfig",
                                    arg |-> r]]
    /\ UNCHANGED <<backend, db, ret, configJson, mig, req, resp, rd, configRest>>

\* Goroutine g from UpdateClientConfig(&updatedConfig) to the response.
updateConfigPersist ==
  \E g \in Goroutines, failAt \in 0..2 :
    /\ proc[g].pc = "assigned"
    /\ db' = RunStatements(db, ClientConfigTxOps(proc[g].arg), failAt, TRUE,
                           ForeignKeysEnforced(backend))
    /\ ret' = Ret("UpdateClientConfig", ErrOf(failAt))
    /\ resp' = Resp("updateConfig", IF failAt = 0 THEN 200 ELSE 500, NoBody)
    /\ proc' = [proc EXCEPT ![g] = IF failAt = 0 THEN [@ EXCEPT !.pc = "done"]
                                   ELSE IdleProc]
    /\ UNCHANGED <<backend, configJson, clientConfig, mig, req, rd, configRest>>

(***************************************************************************)
(* Two goroutines in UpdateProvidersConfig / UpdateClientConfig at once.   *)
(* Each call is s.db.Transaction(...) with the driver's default isolation  *)
(* and no lock of the program around it.  SQLite admits one writing        *)
(* transaction at a time, the other waits (busy_timeout).  Postgres runs   *)
(* them side by side under READ COMMITTED: the DELETE removes the rows     *)
(* committed when the statement starts and does not see rows another       *)
(* transaction commits later.                                              *)
(***************************************************************************)
\* The rows the transaction's DELETE removes, of the table it replaces.
VisibleRows(d, op) ==
  IF op = "UpdateProvidersConfig" THEN d.TableProvider ELSE d.TableClientConfig

\* The store after the DELETE of a transaction that saw the rows `seen`.
DeleteVisible(d, op, seen, fk) ==
  IF op = "UpdateProvidersConfig"
    THEN LET del == DeleteAllProviders(
                      [d EXCEPT !.TableProvider = d.TableProvider \cap seen], fk)
         IN [del EXCEPT !.TableProvider = d.TableProvider \ seen]
    ELSE [d EXCEPT !.TableClientConfig = d.TableClientConfig \ seen]

\* The statements after the DELETE.
InsertOps(op, arg) ==
  IF op = "UpdateProvidersConfig" THEN ProviderOps(arg, 1)
  ELSE <<ClientConfigTxOps(arg)[2]>>

\* Begin and the DELETE of goroutine g's transaction.
TxDeleteOf(g, op, arg) ==
  /\ proc[g].pc \in {"idle", "done"}
  /\ backend.Type = ConfigStoreTypeSQLite
       => \A h \in Goroutines \ {g} : proc[h].pc # "inTx"
  /\ op = "UpdateProvidersConfig"
       => /\ db.nextKeyId + NumKeys(arg) - 1 <= MaxKeyRowId
          /\ db.nextProviderId + Len(arg) - 1 <= MaxProviderRowId
  /\ proc' = [proc EXCEPT ![g] = [pc |-> "inTx", op |-> op, arg |-> arg,
                                  seen |-> VisibleRows(db, op)]]
  /\ UNCHANGED <<backend, db, ret, configJson, clientConfig, mig, req, resp, rd, configRest>>

\* The maps submitted by the concurrent callers: one provider at most.
SingleProviderMaps == {p \in ProviderMaps : Len(p) <= 1}

TxDelete ==
  \E g \in Goroutines :
    \/ \E p \in SingleProviderMaps : TxDeleteOf(g, "UpdateProvidersConfig", p)
    \/ \E c \in ClientConfigs : TxDeleteOf(g, "UpdateClientConfig", c)

\* The inserts and the commit of goroutine g's transaction, or a failing
\* statement and the rollback.
TxCommit ==
  \E g \in Goroutines, ok \in BOOLEAN :
    /\ proc[g].pc = "inTx"
    /\ LET t == proc[g]
           fk == ForeignKeysEnforced(backend)
           ops == InsertOps(t.op, t.arg)
       IN /\ t.op = "UpdateProvidersConfig" /\ ok
               => /\ db.nextKeyId + NumKeys(t.arg) - 1 <= MaxKeyRowId
                  /\ db.nextProviderId + Len(t.arg) - 1 <= MaxProviderRowId
          /\ db' = IF ok THEN RunOps(DeleteVisible(db, t.op, t.seen, fk),
                                     ops, Len(ops), fk)
                   ELSE db
          /\ ret' = Ret(t.op, IF ok THEN ErrNil ELSE ErrStorage)
          /\ proc' = [proc EXCEPT ![g] = IF ok THEN [t EXCEPT !.pc = "done"]
                                         ELSE IdleProc]
    /\ UNCHANGED <<backend, configJson, clientConfig, mig, req, resp, rd, configRest>>

\* The error MigrateFromSql / MigrateFromPostgres return: nil on exit
\* status 0, else the exec error wrapped.
PgloaderFailed == "pgloader failed: exit status 1"

MigrateErr(exitOk) == IF exitOk THEN ErrNil ELSE PgloaderFailed

\* An earlier revision of the handler logs the migration error and goes on
\* to write config.json.
LogsMigrationError(err) == FALSE

\* if err := configstore.Migrate...; err != nil { SendError; return }
AbortsOnMigrationError(err) == err # ErrNil

\* The body SendError produces for a failed transfer.
MigrationFailed(oldType, err) ==
  [kind |-> "error",
   message |-> IF oldType = ConfigStoreTypeSQLite
                 THEN "SQLite -> Postgres migration failed"
                 ELSE "Postgres -> SQLite migration failed",
   cause |-> err]

WriteFailed == [kind |-> "error", message |-> "failed to write config.json",
                cause |-> ErrNil]

Success(c) == [kind |-> "success", config |-> c]

\* The config-store section read from config.json, nil when there is none.
OldConfig == IF configJson = {} THEN NilConfig ELSE CHOOSE c \in configJson : TRUE

\* oldType: the stored type, defaulting to sqlite when nothing is stored
\* and the request asks for postgres.
OldType(oldConfig, newConfig) ==
  LET t == IF oldConfig = NilConfig THEN "" ELSE oldConfig.Type
  IN IF t = "" /\ newConfig.Type = ConfigStoreTypePostgres
       THEN ConfigStoreTypeSQLite ELSE t

\* needsMigration: the type changes, or the type stays and the encoded
\* configs differ.
NeedsMigration(oldConfig, newConfig) ==
  LET oldType == OldType(oldConfig, newConfig)
  IN IF oldConfig = NilConfig
       THEN oldType # "" /\ oldType # newConfig.Type
       ELSE \/ oldType # newConfig.Type
            \/ oldConfig.Config # newConfig.Config

\* fmt.Sprintf("sqlite:///%s", sqlitePath)
SqliteDSN(path) == [scheme |-> "sqlite", Path |-> path]

\* utils.CreatePostgresLink
CreatePostgresLink(host, password) ==
  [scheme |-> "postgres", Host |-> host, Password |-> password]

\* json.Marshal(c) then json.Unmarshal into a SQLiteConfig: the path of a
\* SQLite config, the zero value for any other config.
SqliteCfg(c) == [Path |-> IF c.kind = "SQLiteConfig" THEN c.Path ELSE ""]

\* json.Marshal(c) then json.Unmarshal into a PostgresConfig.
PostgresCfg(c) ==
  IF c.kind = "PostgresConfig" THEN [Host |-> c.Host, Password |-> c.Password]
  ELSE [Host |-> "", Password |-> ""]

\* filepath.Join(filepath.Dir(h.store.ConfigPath), "config.db")
DefaultSqlitePath == "config.db"

\* exec.Command("pgloader", "sqlite:///<sqlitePath>", postgresLink)
MigrateFromSql(sqlitePath, postgresLink) ==
  [src |-> SqliteDSN(sqlitePath), dst |-> postgresLink]

\* exec.Command("pgloader", postgresLink, "sqlite:///<sqlitePath>")
MigrateFromPostgres(sqlitePath, postgresLink) ==
  [src |-> postgresLink, dst |-> SqliteDSN(sqlitePath)]

\* The arguments the handler hands to the transfer tool, by oldType.
ToolArgs(oldConfig, newConfig, oldType) ==
  IF oldType = ConfigStoreTypeSQLite
    THEN LET sqliteCfg == IF oldConfig # NilConfig THEN SqliteCfg(oldConfig.Config)
                          ELSE [Path |-> DefaultSqlitePath]
             postgresCfg == PostgresCfg(newConfig.Config)
         IN MigrateFromSql(sqliteCfg.Path,
                           CreatePostgresLink(postgresCfg.Host, postgresCfg.Password))
    ELSE LET postgresCfg == PostgresCfg(oldConfig.Config)
             sqliteCfg == SqliteCfg(newConfig.Config)
         IN MigrateFromPostgres(sqliteCfg.Path,
                                CreatePostgresLink(postgresCfg.Host,
                                                   postgresCfg.Password))

\* POST /api/db up to the start of the transfer, for one request body; a
\* request that needs no transfer runs to its end.
UpdateDbStateStartOf(valid, newConfig, writeOk) ==
  /\ mig.state # "Transferring"
  /\ LET oldType == OldType(OldConfig, newConfig)
     IN /\ ~valid => writeOk
        /\ IF ~valid
             THEN /\ resp' = Resp("UpdateDbState", 400, NoBody)
                  /\ UNCHANGED <<configJson, mig>>
           ELSE IF /\ NeedsMigration(OldConfig, newConfig)
                   /\ oldType \in {ConfigStoreTypeSQLite, ConfigStoreTypePostgres}
             THEN /\ writeOk
                  /\ mig' = [state |-> "Transferring", target |-> newConfig,
                             oldType |-> oldType, toolErr |-> ErrNil,
                             src |-> ToolArgs(OldConfig, newConfig, oldType).src,
                             dst |-> ToolArgs(OldConfig, newConfig, oldType).dst]
                  /\ UNCHANGED <<configJson, resp>>
           ELSE /\ configJson' = IF writeOk THEN {newConfig} ELSE configJson
                /\ resp' = IF writeOk
                             THEN Resp("UpdateDbState", 200, Success(newConfig))
                             ELSE Resp("UpdateDbState", 500, WriteFailed)
                /\ UNCHANGED mig
  /\ UNCHANGED <<proc, rd, backend, db, ret, clientConfig, req, configRest>>

UpdateDbStateStart ==
  \E valid \in BOOLEAN, newConfig \in DbConfigs, writeOk \in BOOLEAN :
    UpdateDbStateStartOf(valid, newConfig, writeOk)

\* POST /api/db from the return of the transfer tool to the response.  The
\* handler writes config.json; the handlers' ConfigStore is not assigned.
UpdateDbStateFinish ==
  /\ mig.state = "Transferring"
  /\ \E exitOk \in BOOLEAN, writeOk \in BOOLEAN :
       LET err == MigrateErr(exitOk)
       IN /\ ~exitOk => writeOk
          /\ IF AbortsOnMigrationError(err)
               THEN /\ resp' = Resp("UpdateDbState", 500,
                                    MigrationFailed(mig.oldType, err))
                    /\ mig' = [mig EXCEPT !.state = "Failed", !.toolErr = err]
                    /\ UNCHANGED configJson
             ELSE IF ~writeOk
               THEN /\ resp' = Resp("UpdateDbState", 500, WriteFailed)
                    /\ mig' = [mig EXCEPT !.state = "Failed", !.toolErr = err]
                    /\ UNCHANGED configJson
             ELSE /\ configJson' = {mig.target}
                  /\ resp' = Resp("UpdateDbState", 200, Success(mig.target))
                  /\ mig' = [mig EXCEPT !.state = "Swapped", !.toolErr = err]
  /\ UNCHANGED <<proc, rd, backend, db, ret, clientConfig, req, configRest>>

(***************************************************************************)
(* The file side of POST /api/db, as in the revision of the handler that   *)
(* only rewrites config.json (handlers/db.go); the revision with the       *)
(* migration loads and writes the file the same way around the transfer.   *)
(* The load is best effort: when the file exists but cannot be read or     *)
(* decoded, configData stays the zero value and the write-back holds the   *)
(* new config-store section alone.                                         *)
(***************************************************************************)
UpdateDbState ==
  \E valid, loadOk, writeOk \in BOOLEAN, newConfig \in DbConfigs :
    /\ IF ~valid
         THEN /\ resp' = Resp("UpdateDbState", 400, NoBody)
              /\ UNCHANGED <<configJson, configRest>>
       ELSE IF ~writeOk
         THEN /\ resp' = Resp("UpdateDbState", 500, WriteFailed)
              /\ UNCHANGED <<configJson, configRest>>
       ELSE /\ configJson' = {newConfig}
            /\ configRest' = IF loadOk THEN configRest ELSE {}
            /\ resp' = Resp("UpdateDbState", 200, Success(newConfig))
    /\ UNCHANGED <<backend, db, ret, clientConfig, mig, req, rd, proc>>

(***************************************************************************)
(* Two POST /api/db requests at once.  Each request runs UpdateDbState on  *)
(* its own goroutine; the handler holds no lock and keeps no record of a   *)
(* transfer in progress, so a request starts the tool whatever the other   *)
(* request is doing.                                                       *)
(***************************************************************************)
\* Goroutine g from the decode of the body to the start of the transfer
\* tool, or to the response when no transfer is needed.
UpdateDbStateBegin ==
  \E g \in Goroutines, newConfig \in DbConfigs, writeOk \in BOOLEAN :
    LET oldType == OldType(OldConfig, newConfig)
    IN /\ proc[g].pc \in {"idle", "done"}
       /\ IF /\ NeedsMigration(OldConfig, newConfig)
             /\ oldType \in {ConfigStoreTypeSQLite, ConfigStoreTypePostgres}
            THEN /\ writeOk
                 /\ proc' = [proc EXCEPT ![g] =
                               [pc |-> "tool", op |-> "UpdateDbState",
                                target |-> newConfig, oldType |-> oldType]]
                 /\ UNCHANGED <<configJson, resp>>
            ELSE /\ configJson' = IF writeOk THEN {newConfig} ELSE configJson
                 /\ resp' = IF writeOk
                              THEN Resp("UpdateDbState", 200, Success(newConfig))
                              ELSE Resp("UpdateDbState", 500, WriteFailed)
                 /\ proc' = [proc EXCEPT ![g] = IdleProc]
       /\ UNCHANGED <<backend, db, ret, clientConfig, mig, req, rd, configRest>>

\* Goroutine g from the return of the transfer tool to the response.
UpdateDbStateEnd ==
  \E g \in Goroutines, exitOk \in BOOLEAN, writeOk \in BOOLEAN :
    LET err == MigrateErr(exitOk)
        t == proc[g]
    IN /\ t.pc = "tool"
       /\ ~exitOk => writeOk
       /\ IF AbortsOnMigrationError(err)
            THEN /\ resp' = Resp("UpdateDbState", 500, MigrationFailed(t.oldType, err))
                 /\ proc' = [proc EXCEPT ![g] = IdleProc]
                 /\ UNCHANGED configJson
          ELSE IF ~writeOk
            THEN /\ resp' = Resp("UpdateDbState", 500, WriteFailed)
                 /\ proc' = [proc EXCEPT ![g] = IdleProc]
                 /\ UNCHANGED configJson
          ELSE /\ configJson' = {t.target}
               /\ resp' = Resp("UpdateDbState", 200, Success(t.target))
               /\ proc' = [proc EXCEPT ![g] = [t EXCEPT !.pc = "done"]]
       /\ UNCHANGED <<backend, db, ret, clientConfig, mig, req, rd, configRest>>

\* The migration handler next to the client-config endpoints.
NextMigration ==
  \/ UpdateDbStateStart
  \/ UpdateDbStateFinish
  \/ getConfig
  \/ updateConfig
  \/ GetDbState

\* The admin endpoints that read or write secret-bearing configuration.
NextRedaction ==
  \/ getVectorStoreConfig
  \/ updateVectorStoreConfig
  \/ getLogStoreConfig
  \/ updateLogStoreConfig
  \/ GetDbState

\* Bulk replace of the three set-valued domains.
NextBulk ==
  \/ UpdateProvidersConfig
  \/ UpdateMCPConfig
  \/ UpdateEnvKeys

\* Provider keys and the virtual keys that reference them.
NextKeys ==
  \/ UpdateProvidersConfig
  \/ CreateVirtualKey
  \/ UpdateVirtualKey

\* Virtual keys and their reads.
NextVirtualKeyReads ==
  \/ UpdateProvidersConfig
  \/ CreateVirtualKey
  \/ GetVirtualKey
  \/ GetVirtualKeys

\* The repair every start of a process runs.
NextRepair ==
  \/ removeDuplicateKeysAndNullKeys
  \/ removeDuplicateKeysAndNullKeysPostgres

\* The updates of the three single-row domains.
NextSingletons ==
  \/ updateConfig
  \/ updateVectorStoreConfig
  \/ updateLogStoreConfig

\* Successive replaces of the providers and their keys.
NextProviders == UpdateProvidersConfig

\* The life of a virtual key: keys stored, created, deleted.
NextVirtualKeyDelete ==
  \/ UpdateProvidersConfig
  \/ CreateVirtualKey
  \/ DeleteVirtualKey

\* Virtual keys created, updated and deleted over a store whose providers
\* and keys were submitted once.
InitVirtualKeys ==
  /\ \/ configJson = {} /\ backend = DefaultSqlite
     \/ configJson = {DefaultSqlite} /\ backend = DefaultSqlite
     \/ configJson = {StartPostgres} /\ backend = StartPostgres
  /\ \E p \in ProviderMaps :
       db = RunStatements(EmptyDb, ProvidersTxOps(p), 0, TRUE,
                          ForeignKeysEnforced(backend))
  /\ ret = Ret("UpdateProvidersConfig", ErrNil)
  /\ clientConfig = DefaultClientConfig
  /\ mig = IdleMig
  /\ req = NoBody
  /\ resp = Resp("none", 0, NoBody)
  /\ rd = IdleRead
  /\ proc = IdleProcs
  /\ configRest = (IF configJson = {} THEN {} ELSE OtherSections)

NextVirtualKeys ==
  \/ CreateVirtualKey
  \/ UpdateVirtualKey
  \/ DeleteVirtualKey

\* Entities created and read by id.
NextGetById ==
  \/ CreateVirtualKey
  \/ CreateTeam \/ CreateCustomer \/ CreateRateLimit
  \/ CreateBudget \/ CreatePlugin \/ UpdateConfig
  \/ GetVirtualKey
  \/ GetTeam \/ GetCustomer \/ GetRateLimit
  \/ GetBudget \/ GetPlugin \/ GetConfig

\* Reads of the providers while the providers are replaced.
NextConcurrentReads ==
  \/ UpdateProvidersConfig
  \/ GetProvidersConfigFind
  \/ GetProvidersConfigPreload

\* Two concurrent writers of the providers and of the client config.
NextConcurrentWrites ==
  \/ TxDelete
  \/ TxCommit

\* Two concurrent PUT /api/config requests.
NextConcurrentHandlers ==
  \/ updateConfigAssign
  \/ updateConfigPersist

\* The two store constructors.
NextConstructors ==
  \/ newSqliteConfigStore
  \/ newPostgresConfigStore

\* The multi-row updates of budgets and rate limits.
NextMultiRow ==
  \/ UpdateBudgets
  \/ UpdateRateLimits

\* Plugin updates, alone and inside a caller's transaction.
NextPlugins ==
  \/ UpdatePlugin
  \/ BeginTransaction
  \/ UpdatePluginInTx
  \/ EndTransaction

\* Two concurrent POST /api/db requests.
NextConcurrentMigrations ==
  \/ UpdateDbStateBegin
  \/ UpdateDbStateEnd

\* The rewrite of config.json and its read.
NextDbStateFile ==
  \/ UpdateDbState
  \/ GetDbState

\* Replaces of the MCP clients and of the env-key bindings.
NextMcpEnv ==
  \/ UpdateMCPConfig
  \/ UpdateEnvKeys

Next ==
  \/ NextBulk \/ NextKeys \/ NextRedaction \/ NextMigration
  \/ NextVirtualKeyReads \/ NextRepair \/ NextSingletons \/ NextProviders
  \/ NextMcpEnv \/ NextVirtualKeyDelete \/ NextVirtualKeys
  \/ NextGetById \/ NextConcurrentReads \/ NextConcurrentWrites
  \/ NextConcurrentHandlers \/ NextConstructors \/ NextMultiRow
  \/ NextPlugins \/ NextConcurrentMigrations \/ NextDbStateFile

Spec == Init /\ [][Next]_vars

SpecBulk == Init /\ [][NextBulk]_vars

SpecKeys == Init /\ [][NextKeys]_vars

SpecRedaction == Init /\ [][NextRedaction]_vars

SpecMigration == Init /\ [][NextMigration]_vars

\* The handler goes on once the transfer tool has exited: cmd.Run()
\* returns and the rest of the request runs.
SpecMigrationFair == SpecMigration /\ WF_vars(UpdateDbStateFinish)

SpecVirtualKeyReads == Init /\ [][NextVirtualKeyReads]_vars

SpecRepair == InitRepair /\ [][NextRepair]_vars

SpecSingletons == Init /\ [][NextSingletons]_vars

SpecProviders == Init /\ [][NextProviders]_vars

SpecMcpEnv == Init /\ [][NextMcpEnv]_vars

SpecVirtualKeyDelete == Init /\ [][NextVirtualKeyDelete]_vars

SpecVirtualKeys == InitVirtualKeys /\ [][NextVirtualKeys]_vars

SpecGetById == Init /\ [][NextGetById]_vars

SpecConcurrentReads == Init /\ [][NextConcurrentReads]_vars

SpecConcurrentWrites == Init /\ [][NextConcurrentWrites]_vars

SpecConcurrentHandlers == Init /\ [][NextConcurrentHandlers]_vars

SpecConstructors == InitRepair /\ [][NextConstructors]_vars

SpecMultiRow == Init /\ [][NextMultiRow]_vars

SpecPlugins == Init /\ [][NextPlugins]_vars

SpecConcurrentMigrations == Init /\ [][NextConcurrentMigrations]_vars

SpecDbStateFile == Init /\ [][NextDbStateFile]_vars

(***************************************************************************)
(* Claims about the transactional repository.                              *)
(***************************************************************************)
BulkOps == {"UpdateProvidersConfig", "UpdateMCPConfig", "UpdateEnvKeys"}

KeyIDsOf(d) == {k.KeyID : k \in d.TableKey}

\* C1: a bulk replace (providers, MCP clients, env keys) that returns an
\* error leaves every stored row as it was before the call: the replace is
\* rolled back as a whole, whichever statement failed.
C1_BulkReplaceRollsBack ==
  [][(ret'.op \in BulkOps /\ ret'.err # ErrNil) => db' = db]_vars

\* C1 witness: a provider replace has failed while providers and keys were
\* stored, and they are still stored.
C1_Witness ==
  /\ ret.op = "UpdateProvidersConfig"
  /\ ret.err = ErrStorage
  /\ db.TableProvider # {}
  /\ db.TableKey # {}

\* C2: a successful provider replace that submits the natural key ids that
\* are already stored keeps every key row under its storage row id and adds
\* no key row.
C2_ResubmitKeepsRowIds ==
  [][(/\ ret'.op = "UpdateProvidersConfig"
      /\ ret'.err = ErrNil
      /\ db.TableKey # {}
      /\ KeyIDsOf(db') = KeyIDsOf(db))
     => /\ \A k \in db.TableKey :
             \E k2 \in db'.TableKey : k2.ID = k.ID /\ k2.KeyID = k.KeyID
        /\ Cardinality(db'.TableKey) = Cardinality(db.TableKey)]_vars

\* C3: a successful provider replace keeps every virtual-key association
\* whose key's natural key id is still stored after the replace.
C3_ResubmitKeepsAssociations ==
  [][(ret'.op = "UpdateProvidersConfig" /\ ret'.err = ErrNil)
     => \A a \in db.VirtualKeyKeys : \A k \in db.TableKey :
          (k.ID = a.KeyID /\ k.KeyID \in KeyIDsOf(db'))
          => \E a2 \in db'.VirtualKeyKeys : \E k2 \in db'.TableKey :
               /\ a2.VirtualKeyID = a.VirtualKeyID
               /\ a2.KeyID = k2.ID
               /\ k2.KeyID = k.KeyID]_vars

\* C4: an UpdateVirtualKey that returns an error leaves the stored key
\* associations as they were before the call, with or without a
\* transaction handle.
C4_UpdateVirtualKeyAtomic ==
  [][(ret'.op = "UpdateVirtualKey" /\ ret'.err # ErrNil)
     => db'.VirtualKeyKeys = db.VirtualKeyKeys]_vars

C6_CallsAfterSwapUseNewBackend ==
  [][(/\ mig.state = "Swapped"
      /\ ret'.op \in {"GetClientConfig", "UpdateClientConfig"}
      /\ (getConfig \/ updateConfig))
     => backend = mig.target]_vars

\* C7: while a migration is Transferring, no step changes the rows of the
\* backend being transferred.
C7_NoWriteWhileTransferring ==
  [][mig.state = "Transferring" => db' = db]_vars

(***************************************************************************)
(* Claims about the redaction / merge layer.                               *)
(***************************************************************************)
\* The stored vector-store config, decoded; NilConfig without a row.
StoredVectorStoreConfig(d) ==
  IF d.TableVectorStoreConfig = {} THEN NilConfig
  ELSE Unmarshal((CHOOSE r \in d.TableVectorStoreConfig : TRUE).Config)

StoredSecret(d) == SecretOf(StoredVectorStoreConfig(d))

\* C8: with a plaintext secret stored, a redacted read followed by a
\* successful update that sends the read's body back unchanged leaves the
\* stored secret of the vector-store config (Weaviate ApiKey, Redis
\* Password) as it was.
C8_RedactionRoundTrip ==
  [][(/\ db.TableVectorStoreConfig # {}
      /\ StoredSecret(db) \notin {"", RedactionSentinel}
      /\ resp.op = "getVectorStoreConfig" /\ resp.status = 200
      /\ resp'.op = "updateVectorStoreConfig" /\ resp'.status = 200
      /\ req' = resp.body)
     => StoredSecret(db') = StoredSecret(db)]_vars

\* C9: after a successful vector-store write the persisted secret is the
\* previously stored one when the sentinel was submitted for the same
\* variant, the submitted one when it is not the sentinel, and never the
\* sentinel itself.
C9_SecretDecidedPerField ==
  [][(resp'.op = "updateVectorStoreConfig" /\ resp'.status = 200)
     => /\ (/\ IsRedacted(SecretOf(req'.Config))
            /\ StoredVectorStoreConfig(db).kind = req'.Config.kind)
           => StoredSecret(db') = StoredSecret(db)
        /\ ~IsRedacted(SecretOf(req'.Config))
           => StoredSecret(db') = SecretOf(req'.Config)
        /\ StoredSecret(db') # RedactionSentinel]_vars

\* C10: a successful admin read never carries a stored secret in plaintext:
\* the vector-store read shows the sentinel for the secret field, and
\* GET /api/db shows the sentinel for a stored Postgres password.
C10_ReadsAreRedacted ==
  /\ (/\ resp.op = "getVectorStoreConfig" /\ resp.status = 200
      /\ resp.body # NilConfig)
     => SecretOf(resp.body.Config) = RedactionSentinel
  /\ (/\ resp.op = "GetDbState" /\ resp.status = 200
      /\ resp.body.config.kind = "PostgresConfig"
      /\ resp.body.config.Password # "")
     => resp.body.config.Password = RedactionSentinel

(***************************************************************************)
(* Claims about reads, the startup repair and the replace operations.      *)
(***************************************************************************)
\* C11: every Key inside a VirtualKey returned by GetVirtualKey or
\* GetVirtualKeys carries its row id and key id only: its secret value and
\* the other stored columns are absent (zero), whatever the Key rows hold.
C11_VirtualKeyReadsProjectKeys ==
  (ret.op \in {"GetVirtualKey", "GetVirtualKeys"} /\ ret.err = ErrNil)
  => \A vk \in ret.val : \A k \in vk.Keys :
       /\ k.Value = ""
       /\ k.Weight = 0
       /\ k.Provider = ""
       /\ \E x \in db.TableKey : x.ID = k.ID /\ x.KeyID = k.KeyID

\* C11 witness: a read has returned a virtual key with an associated Key
\* whose stored row holds a secret value.
C11_Witness ==
  /\ ret.op = "GetVirtualKey"
  /\ ret.err = ErrNil
  /\ \E vk \in ret.val : \E k \in vk.Keys :
       \E x \in db.TableKey : x.ID = k.ID /\ x.Value # ""

RepairOps ==
  {"removeDuplicateKeysAndNullKeys", "removeDuplicateKeysAndNullKeysPostgres"}

\* The rows of table t with the (key id, value) pair of row r.
SamePair(t, r) == {x \in t : x.KeyID = r.KeyID /\ x.Value = r.Value}

\* C12: a repair that ran without error leaves, for every (key id, value)
\* pair that occurred with non-null fields, exactly the row that had the
\* lowest id of the pair; so no row of a pair that occurred once is deleted.
C12_RepairKeepsMinIdPerPair ==
  [][(ret'.op \in RepairOps /\ ret'.err = ErrNil /\ ret'.val = "repaired")
     => \A r \in db.TableKey :
          (r.KeyID # Null /\ r.Value # Null)
          => SamePair(db'.TableKey, r)
               = {x \in SamePair(db.TableKey, r) :
                    x.ID = Min({y.ID : y \in SamePair(db.TableKey, r)})}]_vars

\* C12 witness: the Postgres repair has run and two rows of different pairs
\* are stored.
C12_Witness ==
  /\ ret.op = "removeDuplicateKeysAndNullKeysPostgres"
  /\ ret.err = ErrNil
  /\ ret.val = "repaired"
  /\ \E r1, r2 \in db.TableKey : r1.KeyID = r2.KeyID /\ r1.Value # r2.Value

\* A table without null fields and without a repeated (key id, value) pair.
CleanTable(t) ==
  \A r \in t : r.KeyID # Null /\ r.Value # Null /\ SamePair(t, r) = {r}

\* C13: a repair that follows a repair changes no row, and a repair of a
\* clean table deletes no row.
C13_RepairIdempotent ==
  [][(ret'.op \in RepairOps /\ ret'.err = ErrNil /\ ret'.val = "repaired")
     => /\ (ret.op \in RepairOps /\ ret.err = ErrNil /\ ret.val = "repaired")
           => db' = db
        /\ CleanTable(db.TableKey) => db' = db]_vars

\* C13 witness: the SQLite repair has run and left a non-empty clean table.
C13_Witness ==
  /\ ret.op = "removeDuplicateKeysAndNullKeys"
  /\ ret.err = ErrNil
  /\ ret.val = "repaired"
  /\ db.TableKey # {}
  /\ CleanTable(db.TableKey)

\* C14: after a repair that ran without error no stored Key row has a null
\* key id or a null or empty secret value.
C14_NoNullOrEmptyAfterRepair ==
  (ret.op \in RepairOps /\ ret.err = ErrNil /\ ret.val = "repaired")
  => \A r \in db.TableKey : r.KeyID # Null /\ r.Value \notin {Null, ""}

SingletonOps ==
  {"UpdateClientConfig", "UpdateVectorStoreConfig", "UpdateLogsStoreConfig"}

\* The handler that calls each singleton update.
HandlerOf(op) ==
  CASE op = "UpdateClientConfig" -> "updateConfig"
    [] op = "UpdateVectorStoreConfig" -> "updateVectorStoreConfig"
    [] op = "UpdateLogsStoreConfig" -> "updateLogStoreConfig"

\* The table a singleton update replaces.
SingletonTable(d, op) ==
  CASE op = "UpdateClientConfig" -> d.TableClientConfig
    [] op = "UpdateVectorStoreConfig" -> d.TableVectorStoreConfig
    [] op = "UpdateLogsStoreConfig" -> d.TableLogStoreConfig

\* The row of the record an update call was given, read back from the
\* handler state of the step's end.
SubmittedRow(op, oldDb, cc, body) ==
  CASE op = "UpdateClientConfig" -> ClientConfigRow(cc)
    [] op = "UpdateVectorStoreConfig" ->
         LET oldRead == GetVectorStoreConfig(oldDb)
             m == mergeVectorStoreConfig(
                    IF oldRead = NilConfig THEN ZeroVectorStoreConfig ELSE oldRead,
                    body)
         IN [Type |-> m.Type, Enabled |-> m.Enabled,
             Config |-> MarshalToStringPtr(m.Config)]
    [] op = "UpdateLogsStoreConfig" ->
         [Type |-> body.Type, Enabled |-> body.Enabled,
          Config |-> MarshalToStringPtr(body)]

\* C15: a successful update of a singleton domain leaves exactly one row in
\* its table, the row of the submitted record; a failed update leaves the
\* table as it was; so no table ever holds two rows, and none is emptied.
C15_SingletonOneRow ==
  [][/\ (/\ ret'.op \in SingletonOps /\ ret'.err = ErrNil
         /\ resp'.op = HandlerOf(ret'.op) /\ resp'.status = 200)
        => SingletonTable(db', ret'.op)
             = {SubmittedRow(ret'.op, db, clientConfig', req')}
     /\ (/\ ret'.op \in SingletonOps /\ ret'.err # ErrNil
         /\ resp'.op = HandlerOf(ret'.op))
        => db' = db
     /\ \A op \in SingletonOps :
          /\ Cardinality(SingletonTable(db', op)) <= 1
          /\ SingletonTable(db, op) # {} => SingletonTable(db', op) # {}]_vars

\* C15 witness: an update of the vector-store config has failed while a
\* row was stored, the row is still there, and the client config holds one
\* row too.
C15_Witness ==
  /\ ret.op = "UpdateVectorStoreConfig"
  /\ ret.err = ErrStorage
  /\ Cardinality(db.TableVectorStoreConfig) = 1
  /\ Cardinality(db.TableClientConfig) = 1

\* C16: a read of the client config from the store that follows a
\* successful UpdateClientConfig(X) returns X in every field.
C16_ClientConfigRoundTrip ==
  [][(/\ ret.op = "UpdateClientConfig" /\ ret.err = ErrNil
      /\ ret'.op = "GetClientConfig" /\ ret'.err = ErrNil
      /\ resp'.op = "getConfig" /\ resp'.status = 200)
     => resp'.body.client_config = clientConfig]_vars

\* C17: after a successful UpdateProvidersConfig(P), GetProvidersConfig
\* returns exactly the providers of P, each with exactly the keys submitted
\* for it, also when a key id is submitted under two providers.
C17_ProvidersReadBackExactly ==
  [][\A p \in ProviderMaps :
       (/\ ret'.op = "UpdateProvidersConfig" /\ ret'.err = ErrNil
        /\ UpdateProvidersConfigOf(p))
       => GetProvidersConfig(db') = ProvidersOf(p)]_vars

\* C18: after a successful UpdateMCPConfig(C) the stored MCP clients are
\* exactly those of C (none for a nil or empty C), and after a successful
\* UpdateEnvKeys(K) GetEnvKeys returns exactly the bindings of K grouped by
\* environment variable.
C18_McpAndEnvReplacedExactly ==
  [][/\ \A c \in MCPConfigs :
          (/\ ret'.op = "UpdateMCPConfig" /\ ret'.err = ErrNil
           /\ UpdateMCPConfigOf(c))
          => /\ db'.TableMCPClient = (IF c.isNil THEN {} ELSE c.ClientConfigs)
             /\ GetMCPConfig(db').ClientConfigs = c.ClientConfigs
     /\ \A k \in EnvKeyMaps :
          (/\ ret'.op = "UpdateEnvKeys" /\ ret'.err = ErrNil
           /\ UpdateEnvKeysOf(k))
          => GetEnvKeys(db') = GroupByEnvVar(k)]_vars

\* C18 witness: one MCP client and one env binding are stored after a
\* replace of the env keys.
C18_Witness ==
  /\ ret.op = "UpdateEnvKeys"
  /\ ret.err = ErrNil
  /\ Cardinality(db.TableEnvKey) = 1
  /\ Cardinality(db.TableMCPClient) = 1

\* The keys one call submits, in the order the loops reach them.
IsUpsertKey(o) == o.op = "UpsertKey"

SubmittedKeys(p) == SelectSeq(ProviderOps(p, 1), IsUpsertKey)

\* C19: after a successful UpdateProvidersConfig there is at most one Key
\* row per natural key id, and the row of every submitted key id carries
\* the value, weight and provider of its most recent submission.
C19_OneRowPerKeyIdLastSubmission ==
  [][\A p \in ProviderMaps :
       (/\ ret'.op = "UpdateProvidersConfig" /\ ret'.err = ErrNil
        /\ UpdateProvidersConfigOf(p))
       => /\ \A a, b \in db'.TableKey : a.KeyID = b.KeyID => a = b
          /\ \A i \in 1..Len(SubmittedKeys(p)) :
               LET s == SubmittedKeys(p)
               IN (\A j \in (i + 1)..Len(s) : s[j].Key.ID # s[i].Key.ID)
                  => \E k \in db'.TableKey :
                       /\ k.KeyID = s[i].Key.ID
                       /\ k.Value = s[i].Key.Value
                       /\ k.Weight = s[i].Key.Weight
                       /\ k.Provider = s[i].Name
                       /\ \E r \in db'.TableProvider :
                            r.ID = k.ProviderID /\ r.Name = s[i].Name]_vars

\* C19 witness: on SQLite the only key row ever created (row id 1) belongs
\* to the second provider row after a successful replace.
C19_Witness ==
  /\ backend.Type = ConfigStoreTypeSQLite
  /\ ret.op = "UpdateProvidersConfig"
  /\ ret.err = ErrNil
  /\ db.nextKeyId = 2
  /\ \E k \in db.TableKey : k.ID = 1 /\ k.ProviderID = 2 /\ k.Weight = 2
  /\ Cardinality(db.TableKey) = 1

\* The provider rows a submitted map omits, and the key rows they own.
OmittedProviders(d, p) ==
  {r \in d.TableProvider : \A i \in 1..Len(p) : p[i].Name # r.Name}

KeysOfProviders(d, rows) ==
  {k \in d.TableKey : k.ProviderID \in {r.ID : r \in rows}}

\* C20: after a successful provider replace that omits a stored provider,
\* no key row of that provider is left, no association row refers to one
\* of its key rows, and every virtual key is still stored unchanged.
C20_OmittedProviderCascades ==
  [][\A p \in ProviderMaps :
       (/\ ret'.op = "UpdateProvidersConfig" /\ ret'.err = ErrNil
        /\ UpdateProvidersConfigOf(p))
       => LET gone == OmittedProviders(db, p)
              dead == {k \in KeysOfProviders(db, gone) :
                         \A i \in 1..Len(SubmittedKeys(p)) :
                           SubmittedKeys(p)[i].Key.ID # k.KeyID}
          IN /\ KeysOfProviders(db', gone) = {}
             /\ \A a \in db'.VirtualKeyKeys : a.KeyID \notin {k.ID : k \in dead}
             /\ db'.TableVirtualKey = db.TableVirtualKey]_vars

(***************************************************************************)
(* Claims about virtual-key deletes and updates, get-by-id outcomes, the   *)
(* vector-store merge and the backend migration.                           *)
(***************************************************************************)
\* C21: a successful DeleteVirtualKey(id) removes the virtual-key row and
\* every association row of that virtual key, and leaves the Key table as
\* it was.
C21_DeleteVirtualKeyClearsAssociations ==
  [][\A id \in VirtualKeyIDs :
       (/\ ret'.op = "DeleteVirtualKey" /\ ret'.err = ErrNil
        /\ DeleteVirtualKeyOf(id))
       => /\ \A r \in db'.TableVirtualKey : r.ID # id
          /\ \A a \in db'.VirtualKeyKeys : a.VirtualKeyID # id
          /\ db'.TableKey = db.TableKey]_vars

\* The key rows a virtual key is associated with.
KeysOfVirtualKey(d, id) == {a.KeyID : a \in {x \in d.VirtualKeyKeys : x.VirtualKeyID = id}}

\* C22: a successful UpdateVirtualKey of a stored virtual key that
\* resubmits its current key set (whatever the budget) leaves the set of
\* association rows as it was before the call.
C22_BudgetOnlyUpdateKeepsAssociations ==
  [][\A vk \in VirtualKeyRows, inTx \in BOOLEAN :
       (/\ ret'.op = "UpdateVirtualKey" /\ ret'.err = ErrNil
        /\ \E r \in db.TableVirtualKey : r.ID = vk.ID
        /\ KeysOfVirtualKey(db, vk.ID) \subseteq {k.ID : k \in db.TableKey}
        /\ UpdateVirtualKeyOf(vk, KeysOfVirtualKey(db, vk.ID), inTx))
       => /\ db'.VirtualKeyKeys = db.VirtualKeyKeys
          /\ KeysOfVirtualKey(db', vk.ID) = KeysOfVirtualKey(db, vk.ID)
          /\ db'.TableVirtualKey =
               {r \in db.TableVirtualKey : r.ID # vk.ID} \cup {vk}]_vars

\* C22 witness: the virtual key carries the second budget and an
\* association after a successful update.
C22_Witness ==
  /\ ret.op = "UpdateVirtualKey"
  /\ ret.err = ErrNil
  /\ [ID |-> "vk1", Budget |-> "b2"] \in db.TableVirtualKey
  /\ KeysOfVirtualKey(db, "vk1") # {}

\* The outcome a get-by-id must report: nil for a stored entity,
\* ErrNotFound for an absent one, another error for a storage failure.
NotFoundDistinct(present, ok, r) ==
  /\ (ok /\ present) => r.err = ErrNil
  /\ (ok /\ ~present) => r.err = ErrNotFound
  /\ ~ok => r.err \notin {ErrNil, ErrNotFound}

\* C23: every get-by-id (GetVirtualKey, GetTeam, GetCustomer, GetRateLimit,
\* GetBudget, GetPlugin, GetConfig) reports an absent entity as ErrNotFound
\* and a storage failure as a different error.
C23_GetByIdReportsNotFound ==
  [][\A ok \in BOOLEAN :
       /\ \A id \in VirtualKeyIDs :
            GetVirtualKeyOf(id, ok)
            => NotFoundDistinct(\E r \in db.TableVirtualKey : r.ID = id, ok, ret')
       /\ \A id \in TeamIDs :
            GetTeamOf(id, ok)
            => NotFoundDistinct([ID |-> id] \in db.TableTeam, ok, ret')
       /\ \A id \in CustomerIDs :
            GetCustomerOf(id, ok)
            => NotFoundDistinct([ID |-> id] \in db.TableCustomer, ok, ret')
       /\ \A id \in RateLimitIDs :
            GetRateLimitOf(id, ok)
            => NotFoundDistinct([ID |-> id] \in db.TableRateLimit, ok, ret')
       /\ \A id \in BudgetIDs :
            GetBudgetOf(id, ok)
            => NotFoundDistinct([ID |-> id] \in db.TableBudget, ok, ret')
       /\ \A n \in PluginNames :
            GetPluginOf(n, ok)
            => NotFoundDistinct([Name |-> n] \in db.TablePlugin, ok, ret')
       /\ \A k \in ConfigKeys :
            GetConfigOf(k, ok)
            => NotFoundDistinct([Key |-> k] \in db.TableConfig, ok, ret')]_vars

\* C24: when the stored vector-store config and the submitted one have
\* different types, the merge returns the submitted config as it is (also
\* for a stored config of the other variant's Go type), and a successful
\* update persists exactly the submitted record, redaction sentinel
\* included.
C24_MergeTakesNewAcrossVariants ==
  [][(/\ resp'.op = "updateVectorStoreConfig" /\ resp'.status = 200
      /\ db.TableVectorStoreConfig # {}
      /\ GetVectorStoreConfig(db).Type # req'.Type)
     => /\ db'.TableVectorStoreConfig =
             {[Type |-> req'.Type, Enabled |-> req'.Enabled,
               Config |-> MarshalToStringPtr(req'.Config)]}
        /\ mergeVectorStoreConfig(GetVectorStoreConfig(db), req') = req'
        /\ \A old \in VectorStoreConfigs :
             old.Type # req'.Type
             => mergeVectorStoreConfig(old, req') = req']_vars

\* C24 witness: a Redis config whose password is the sentinel is stored
\* after a successful update.
C24_Witness ==
  /\ resp.op = "updateVectorStoreConfig"
  /\ resp.status = 200
  /\ db.TableVectorStoreConfig # {}
  /\ StoredVectorStoreConfig(db).kind = "RedisConfig"
  /\ StoredSecret(db) = RedactionSentinel
  /\ req.Type = VectorStoreTypeRedis

\* The descriptor of the active backend: the config-store section of
\* config.json, or the backend the process opened when there is none.
ActiveDescriptor == IF configJson = {} THEN backend ELSE OldConfig

\* The target differs from the active backend in type or in parameters.
TargetDiffers(active, target) ==
  active.Type # target.Type \/ active.Config # target.Config

\* C25: a valid UpdateDbState request for an enabled target starts a
\* transfer exactly when the target's type or connection parameters differ
\* from those of the active backend.
C25_TransferIffTargetDiffers ==
  [][\A newConfig \in DbConfigs, writeOk \in BOOLEAN :
       (/\ newConfig.Enabled /\ ActiveDescriptor.Enabled
        /\ UpdateDbStateStartOf(TRUE, newConfig, writeOk))
       => ((mig'.state = "Transferring")
             <=> TargetDiffers(ActiveDescriptor, newConfig))]_vars

\* C26: the descriptor is replaced (Swapped is entered) only from
\* Transferring, only when the transfer tool returned no error, and only
\* with the target backend opened as the store of the process.
C26_SwapOnlyAfterTransferAndVerify ==
  [][(mig'.state = "Swapped" /\ mig' # mig)
     => /\ mig.state = "Transferring"
        /\ mig'.toolErr = ErrNil
        /\ configJson' = {mig'.target}
        /\ backend' = mig'.target]_vars

OneReplaceApart(d0, d, fk) ==
  \/ d = d0
  \/ \E p \in ProviderMaps : d = RunStatements(d0, ProvidersTxOps(p), 0, TRUE, fk)

\* C28: a GetProvidersConfig that runs while at most one provider replace
\* commits returns the complete providers of the store as it was when the
\* read began or as it is when the read returns.
C28_ReadSeesBeforeOrAfter ==
  [][(/\ rd.pc = "preload" /\ rd'.pc = "idle"
      /\ ret'.op = "GetProvidersConfig" /\ ret'.err = ErrNil
      /\ OneReplaceApart(rd.db0, db, ForeignKeysEnforced(backend)))
     => ret'.val \in {GetProvidersConfig(rd.db0), GetProvidersConfig(db)}]_vars

\* The connection string of the backend a descriptor describes.
DescriptorDSN(c) ==
  IF c.Type = ConfigStoreTypeSQLite
    THEN SqliteDSN(c.Config.Path)
    ELSE CreatePostgresLink(c.Config.Host, c.Config.Password)

\* C29: whenever a request with a stored, enabled active descriptor and an
\* enabled target starts the transfer tool, the tool's source is the
\* connection string of the active descriptor and its destination the
\* connection string of the requested target.
C29_ToolSourceActiveDestinationTarget ==
  [][\A newConfig \in DbConfigs, writeOk \in BOOLEAN :
       (/\ configJson # {} /\ OldConfig.Enabled /\ newConfig.Enabled
        /\ UpdateDbStateStartOf(TRUE, newConfig, writeOk)
        /\ mig'.state = "Transferring")
       => /\ mig'.src = DescriptorDSN(OldConfig)
          /\ mig'.dst = DescriptorDSN(newConfig)]_vars

\* C30: a CreateVirtualKey for an id with no stored row and no stored
\* association, with or without a transaction handle, either fails and
\* leaves no virtual-key row of that id, or succeeds and leaves exactly
\* the submitted keys associated with it.
C30_CreateVirtualKeyAllOrNothing ==
  [][\A vk \in VirtualKeyRows, keys \in SUBSET StoredKeyRowIds, inTx \in BOOLEAN :
       (/\ ~\E r \in db.TableVirtualKey : r.ID = vk.ID
        /\ KeysOfVirtualKey(db, vk.ID) = {}
        /\ CreateVirtualKeyOf(vk, keys, inTx))
       => /\ ret'.err # ErrNil => ~\E r \in db'.TableVirtualKey : r.ID = vk.ID
          /\ ret'.err = ErrNil => KeysOfVirtualKey(db', vk.ID) = keys]_vars

(***************************************************************************)
(* Claims about concurrent callers, the config handler's in-memory state,  *)
(* the store constructors, the multi-row updates and budget ownership.     *)
(***************************************************************************)
\* Both goroutines have committed a call of the method op.
BothCommitted(op) == \A g \in Goroutines : proc[g].pc = "done" /\ proc[g].op = op

NamesOf(p) == {p[i].Name : i \in DOMAIN p}

\* C31: once two UpdateProvidersConfig calls with disjoint provider names
\* have both committed, the stored provider names are those of one call;
\* once two UpdateClientConfig calls have both committed, one row is
\* stored and it is the row of one of the two submitted configs.
C31_ConcurrentReplaceLeavesOneSubmission ==
  /\ (/\ BothCommitted("UpdateProvidersConfig")
      /\ NamesOf(proc[1].arg) \cap NamesOf(proc[2].arg) = {})
     => {r.Name : r \in db.TableProvider}
          \in {NamesOf(proc[g].arg) : g \in Goroutines}
  /\ BothCommitted("UpdateClientConfig")
     => \E g \in Goroutines : db.TableClientConfig = {ClientConfigRow(proc[g].arg)}

\* C32: a PUT /api/config whose UpdateClientConfig fails leaves the
\* in-memory ClientConfig as it was before the request.
C32_FailedUpdateKeepsInMemoryConfig ==
  [][(updateConfig /\ ret'.op = "UpdateClientConfig" /\ ret'.err # ErrNil
      /\ resp'.status = 500)
     => clientConfig' = clientConfig]_vars

\* C33: once the PUT /api/config requests of both goroutines have
\* finished with success, the row stored for the client config is the row
\* of the in-memory ClientConfig.
C33_InMemoryEqualsPersisted ==
  BothCommitted("updateConfig")
    => db.TableClientConfig = {ClientConfigRow(clientConfig)}

\* C34: in a call of either store constructor that opened the database,
\* AutoMigrate runs only after a repair without error; with the legacy
\* table absent the repair deletes nothing and succeeds; and when a step
\* of the repair (the table probe or one of the two deletes) fails, the
\* constructor returns an error, AutoMigrate is not run and no store is
\* returned.
C34_RepairBeforeReconcileAndFatal ==
  [][((newSqliteConfigStore \/ newPostgresConfigStore)
      /\ ret'.op \in {"newSqliteConfigStore", "newPostgresConfigStore"})
     => LET v == ret'.val
        IN /\ v.autoMigrate => v.repairErr = ErrNil
           /\ (v.probeOk /\ ~v.present) => (v.repairErr = ErrNil /\ db' = db)
           /\ (~v.probeOk \/ v.repairErr # ErrNil)
                => (ret'.err # ErrNil /\ ~v.store /\ ~v.autoMigrate)]_vars

\* C35: on every Key table the null delete followed by the GROUP BY
\* MIN(id) delete and the null delete followed by the ROW_NUMBER delete
\* leave the same rows, and a repair of either backend that ran without
\* error leaves exactly those rows.
C35_RepairVariantsAgree ==
  /\ [](removeDuplicateKeys(removeNullKeys(db.TableKey))
          = removeDuplicateKeysPostgres(removeNullKeys(db.TableKey)))
  /\ [][(ret'.op \in RepairOps /\ ret'.err = ErrNil /\ ret'.val = "repaired")
        => /\ db'.TableKey = removeDuplicateKeys(removeNullKeys(db.TableKey))
           /\ db'.TableKey
                = removeDuplicateKeysPostgres(removeNullKeys(db.TableKey))]_vars

\* C35 witness: a repair has removed the null rows and stopped at its
\* second delete, and three rows of one (key id, value) pair are stored.
C35_Witness ==
  /\ ret.op \in RepairOps
  /\ ret.err # ErrNil
  /\ \E r \in db.TableKey : Cardinality(SamePair(db.TableKey, r)) = 3

\* C36: an UpdateBudgets or UpdateRateLimits call that returns an error,
\* with or without a transaction handle, leaves every row of the store as
\* it was before the call.
C36_MultiRowUpdateAllOrNothing ==
  [][((UpdateBudgets \/ UpdateRateLimits)
      /\ ret'.op \in {"UpdateBudgets", "UpdateRateLimits"}
      /\ ret'.err # ErrNil)
     => db' = db]_vars

\* C37: an UpdatePlugin(p) without a handle that returns nil leaves exactly
\* the row p under p's name and every other plugin row as it was, one
\* that returns an error leaves the store as it was; an UpdatePlugin with
\* a handle changes nothing outside the caller's transaction and leaves
\* that transaction open.
C37_UpdatePluginAtomic ==
  /\ [][\A p \in PluginRows :
          (UpdatePluginOf(p) /\ ret'.op = "UpdatePlugin")
          => /\ ret'.err = ErrNil
                  => /\ {r \in db'.TablePlugin : r.Name = p.Name} = {p}
                     /\ {r \in db'.TablePlugin : r.Name # p.Name}
                          = {r \in db.TablePlugin : r.Name # p.Name}
             /\ ret'.err # ErrNil => db' = db]_vars
  /\ [][UpdatePluginInTx
          => /\ db' = db
             /\ \A g \in Goroutines : proc'[g].pc = proc[g].pc]_vars

\* C37 witness: an UpdatePlugin without a handle has returned nil, and two
\* plugin rows of different names are stored.
C37_Witness ==
  /\ ret.op = "UpdatePlugin" /\ ret.err = ErrNil /\ ret.val = "local"
  /\ Cardinality({r.Name : r \in db.TablePlugin}) = 2

\* C38: the transfer tool never runs for both goroutines' UpdateDbState
\* requests at once.
C38_AtMostOneTransfer ==
  ~(\A g \in Goroutines : proc[g].pc = "tool")

\* C39: an UpdateDbState that answers success leaves every other section
\* of config.json as it was, and one that answers an error leaves the
\* whole file as it was.
C39_OnlyConfigStoreSectionChanges ==
  [][(UpdateDbState /\ resp'.op = "UpdateDbState")
     => /\ configRest' = configRest
        /\ resp'.status # 200 => configJson' = configJson]_vars

\* The owners of the budget id: the virtual keys whose BudgetID names it.
\* Team and customer rows carry no budget reference in this development, so
\* the only parent a budget can have here is a virtual key.
BudgetParents(d, id) == {vk \in d.TableVirtualKey : vk.Budget = id}

\* C40: at the end of a committed CreateBudget every Budget row is referenced
\* by exactly one parent; a create that would leave a Budget with no parent
\* or with several is rejected.
C40_BudgetHasExactlyOneParent ==
  (ret.op = "CreateBudget" /\ ret.err = ErrNil)
    => \A b \in db.TableBudget : Cardinality(BudgetParents(db, b.ID)) = 1

====
